---- MODULE Spec2Model ----
(***************************************************************************)
(* Model of leechy-torrent's piece-exchange engine (package p2p and the    *)
(* codecs it uses): the download coordinator (Torrent.Download), the       *)
(* per-peer workers (startDownloadWorker), the pipelined piece downloader  *)
(* (attemptDownloadPiece / PieceProgress.ReadMessage) and the message and  *)
(* bitfield helpers they call.                                             *)
(*                                                                         *)
(* Sizes are scaled: a byte of piece data is a number, a piece is a short  *)
(* sequence of them, and the block size and pipeline depth of the source   *)
(* (16384 bytes, 8 requests) are the small numbers MaxBlockSize and        *)
(* MaxBacklog below, so that a piece still spans several blocks and the    *)
(* pipeline still fills up before the piece is completely requested.       *)
(*                                                                         *)
(* Specifications: Spec is a whole download run, SpecFair the run from two *)
(* peers under the scheduler, SpecFaulty the run from a faulty and a       *)
(* correct peer, SpecAttempt one piece attempt against any peer, SpecTimed *)
(* the attempt with the clock running (seconds; the deadlines of the       *)
(* source are PieceDeadline, ReadDeadline, HandshakeDeadline and           *)
(* BitfieldDeadline), SpecSetup the set-up of one session (client.New),    *)
(* and SpecCodec a message going through Message.Serialize and             *)
(* message.Read.                                                           *)
(***************************************************************************)
EXTENDS Integers, Sequences, FiniteSets, TLC

\* ------------------------------------------------------------------ bounds
\* p2p.MaxBlockSize (16384 in the source), scaled.
MaxBlockSize == 2
\* p2p.MaxBacklog (8 in the source), scaled.
MaxBacklog == 2
\* number of peers the tracker returned (one worker each)
NumPeers == 2
\* longest piece of the single-session specification
MaxPieceLen == 5
\* how far below zero a peer is followed in driving the backlog counter
MaxSpurious == 2
\* how many seconds of a piece attempt are followed
MaxElapsed == 33
\* longest payload of a message put through Serialize and Read
MaxPayload == 2
\* longest bitfield handed to HasPiece and SetPiece on their own
MaxBitfieldLen == 2
\* most peers in a compact peer list handed to Unmarshal
MaxCompactPeers == 2

\* ---------------------------------------------------------------- deadlines
\* attemptDownloadPiece: SetDeadline(time.Now().Add(30 * time.Second))
PieceDeadline == 30
\* Client.Read: SetDeadline(time.Now().Add(3 * time.Second))
ReadDeadline == 3
\* CompleteHandshake: SetDeadline(time.Now().Add(3 * time.Second))
HandshakeDeadline == 3
\* RecvBitField: SetDeadline(time.Now().Add(3 * time.Second))
BitfieldDeadline == 3

Workers == 1 .. NumPeers

\* ------------------------------------------------------- message ids (iota)
MsgChoke == 0
MsgUnchoke == 1
MsgInterested == 2
MsgNotInterested == 3
MsgHave == 4
MsgBitfield == 5
MsgRequest == 6
MsgPiece == 7
MsgCancel == 8

\* the nil *Message: a keep-alive
Nil == [Id |-> -1, Payload |-> << >>]

Message(id, payload) == [Id |-> id, Payload |-> payload]

\* ------------------------------------------------------------ byte helpers
Min(a, b) == IF a < b THEN a ELSE b

\* binary.BigEndian.PutUint32 of uint32(v)
\* (a negative int wraps: its low 31 bits, and the top bit set)
PutUint32(v) ==
  LET u == IF v >= 0 THEN v ELSE (v + 2147483647) + 1
      top == IF v >= 0 THEN 0 ELSE 128
  IN  << (u \div 16777216) + top, (u \div 65536) % 256, (u \div 256) % 256,
         u % 256 >>

\* int(binary.BigEndian.Uint32(b[:4])) on a 64-bit int
Uint32(b) == ((b[1] * 256 + b[2]) * 256 + b[3]) * 256 + b[4]

\* Go's integer division truncates toward zero and % takes the dividend's sign
GoDiv(a, b) == IF a >= 0 THEN a \div b ELSE -((-a) \div b)
GoRem(a, b) == a - b * GoDiv(a, b)

Pow2(k) == IF k = 0 THEN 1 ELSE IF k = 1 THEN 2 ELSE IF k = 2 THEN 4
           ELSE IF k = 3 THEN 8 ELSE IF k = 4 THEN 16 ELSE IF k = 5 THEN 32
           ELSE IF k = 6 THEN 64 ELSE IF k = 7 THEN 128 ELSE 256

\* ------------------------------------------------------------------ bitfield
\* a HasPiece that counts the bits of a byte from its low end
HasPiece_lsbFirst(bf, index) ==
  LET byteIndex == GoDiv(index, 8)
      offset == GoRem(index, 8)
  IN  IF byteIndex < 0 \/ byteIndex >= Len(bf) THEN FALSE
      ELSE IF offset < 0 THEN FALSE
      ELSE ((bf[byteIndex + 1] \div Pow2(offset)) % 2) = 1

\* Bitfield.HasPiece: (bf[byteIndex] >> (7 - offset)) & 1 == 1
HasPiece(bf, index) ==
  LET byteIndex == GoDiv(index, 8)
      offset == GoRem(index, 8)
  IN  IF byteIndex < 0 \/ byteIndex >= Len(bf) THEN FALSE
      ELSE ((bf[byteIndex + 1] \div Pow2(7 - offset)) % 2) = 1

\* a SetPiece that assigns the mask instead of or-ing it in
SetPiece_assign(bf, index) ==
  LET byteIndex == GoDiv(index, 8)
      offset == GoRem(index, 8)
      mask == Pow2(7 - offset) % 256
  IN  IF byteIndex < 0 \/ byteIndex >= Len(bf) THEN bf
      ELSE [bf EXCEPT ![byteIndex + 1] = mask]

\* Bitfield.SetPiece: bf[byteIndex] |= 1 << (7 - offset), in a byte
SetPiece(bf, index) ==
  LET byteIndex == GoDiv(index, 8)
      offset == GoRem(index, 8)
      mask == Pow2(7 - offset) % 256
  IN  IF byteIndex < 0 \/ byteIndex >= Len(bf) THEN bf
      ELSE IF mask # 0 /\ ((bf[byteIndex + 1] \div mask) % 2) = 1 THEN bf
      ELSE [bf EXCEPT ![byteIndex + 1] = (@ + mask) % 256]

\* ------------------------------------------------------------ message codec
\* message.FormatRequestMsg
FormatRequestMsg(index, begin, length) ==
  Message(MsgRequest, PutUint32(index) \o PutUint32(begin) \o PutUint32(length))

\* message.FormatHave
FormatHave(index) == Message(MsgHave, PutUint32(index))

\* int(binary.BigEndian.Uint32(b)) on a build whose int has intSize bits
\* (GOARCH=386: 32, amd64 and arm64: 64). With the top bit set the 32-bit
\* int is negative; the 64-bit int is 2^31 or more, kept here as the largest
\* number TLC's integers hold: it compares like the true value with
\* every index, offset and length of the model.
ToInt(intSize, b) ==
  IF b[1] < 128 THEN Uint32(b)
  ELSE IF intSize = 32
    THEN (Uint32(<< b[1] - 128, b[2], b[3], b[4] >>) - 2147483647) - 1
  ELSE 2147483647

\* a ParseHave that takes the index from the first four bytes of a longer
\* payload
ParseHaveOn_longPayload(intSize, msg) ==
  IF msg.Id # MsgHave THEN [index |-> 0, err |-> TRUE]
  ELSE IF Len(msg.Payload) < 4 THEN [index |-> 0, err |-> TRUE]
  ELSE [index |-> ToInt(intSize, SubSeq(msg.Payload, 1, 4)), err |-> FALSE]

\* message.ParseHave on a build whose int has intSize bits: [index, err]
ParseHaveOn(intSize, msg) ==
  IF msg.Id # MsgHave THEN [index |-> 0, err |-> TRUE]
  ELSE IF Len(msg.Payload) # 4 THEN [index |-> 0, err |-> TRUE]
  ELSE [index |-> ToInt(intSize, msg.Payload), err |-> FALSE]

\* message.ParseHave, for the download model: its peers send indexes below
\* 2^31, which every build reads alike
ParseHave(msg) == ParseHaveOn(64, msg)

\* a copy that starts at the head of the buffer whatever begin is
CopyAt_fromStart(dataBuf, begin, data) ==
  [k \in 1 .. Len(dataBuf) |->
     IF k <= Len(data) THEN data[k] ELSE dataBuf[k]]

\* copy(dataBuf[begin:], data), with begin + len(data) <= len(dataBuf)
CopyAt(dataBuf, begin, data) ==
  [k \in 1 .. Len(dataBuf) |->
     IF k > begin /\ k <= begin + Len(data) THEN data[k - begin] ELSE dataBuf[k]]

\* message.ParsePiece on a build whose int has intSize bits:
\* [n, err, buf, panic] where buf is dataBuf after the call and panic says
\* that the slice expression dataBuf[begin:] was reached with a negative
\* begin (runtime error: slice bounds out of range)
ParsePieceOn(intSize, index, dataBuf, msg) ==
  IF msg.Id # MsgPiece
  THEN [n |-> 0, err |-> TRUE, buf |-> dataBuf, panic |-> FALSE]
  ELSE IF ~(Len(msg.Payload) >= 8)
  THEN [n |-> 0, err |-> TRUE, buf |-> dataBuf, panic |-> FALSE]
  ELSE
    LET parsedIndex == ToInt(intSize, SubSeq(msg.Payload, 1, 4))
        dataBufLen == Len(dataBuf)
        begin == ToInt(intSize, SubSeq(msg.Payload, 5, 8))
        data == SubSeq(msg.Payload, 9, Len(msg.Payload))
        dataLen == Len(data)
    IN  IF parsedIndex # index
        THEN [n |-> 0, err |-> TRUE, buf |-> dataBuf, panic |-> FALSE]
        ELSE IF begin >= dataBufLen
        THEN [n |-> 0, err |-> TRUE, buf |-> dataBuf, panic |-> FALSE]
        ELSE IF begin + dataLen > dataBufLen
        THEN [n |-> 0, err |-> TRUE, buf |-> dataBuf, panic |-> FALSE]
        ELSE IF begin < 0
        THEN [n |-> 0, err |-> FALSE, buf |-> dataBuf, panic |-> TRUE]
        ELSE [n |-> dataLen, err |-> FALSE,
              buf |-> CopyAt(dataBuf, begin, data), panic |-> FALSE]

\* message.ParsePiece, for the download model: its peers send indexes and
\* offsets below 2^31, which every build reads alike
ParsePiece(index, dataBuf, msg) == ParsePieceOn(64, index, dataBuf, msg)

\* a Serialize whose length prefix leaves out the id byte
Serialize_noIdByte(msg) ==
  IF msg = Nil THEN << 0, 0, 0, 0 >>
  ELSE PutUint32(Len(msg.Payload)) \o << msg.Id >> \o msg.Payload

\* Message.Serialize: <length prefix><message ID><payload>, and four zero
\* bytes for the nil message
Serialize(msg) ==
  IF msg = Nil THEN << 0, 0, 0, 0 >>
  ELSE PutUint32(Len(msg.Payload) + 1) \o << msg.Id >> \o msg.Payload

\* a Read that makes a message of whatever part of the body arrived
Read_partial(reader) ==
  IF Len(reader) < 4 THEN [msg |-> Nil, err |-> TRUE, rest |-> << >>]
  ELSE
    LET payloadLenBuf == SubSeq(reader, 1, 4)
        after == SubSeq(reader, 5, Len(reader))
    IN  IF payloadLenBuf[1] >= 128
        THEN [msg |-> Nil, err |-> TRUE, rest |-> << >>]
        ELSE IF Uint32(payloadLenBuf) = 0
        THEN [msg |-> Nil, err |-> FALSE, rest |-> after]
        ELSE IF after = << >>
        THEN [msg |-> Nil, err |-> TRUE, rest |-> << >>]
        ELSE LET payloadLen == Min(Uint32(payloadLenBuf), Len(after))
                 msgBuf == SubSeq(after, 1, payloadLen)
             IN  [msg |-> Message(msgBuf[1], SubSeq(msgBuf, 2, payloadLen)),
                  err |-> FALSE,
                  rest |-> SubSeq(after, payloadLen + 1, Len(after))]

\* message.Read from the bytes reader holds: [msg, err, rest], rest being
\* what the reader still holds afterwards (a failed io.ReadFull has taken
\* all there was). A prefix with its top bit set announces more bytes than
\* any reader here holds.
Read(reader) ==
  IF Len(reader) < 4 THEN [msg |-> Nil, err |-> TRUE, rest |-> << >>]
  ELSE
    LET payloadLenBuf == SubSeq(reader, 1, 4)
        after == SubSeq(reader, 5, Len(reader))
    IN  IF payloadLenBuf[1] >= 128
        THEN [msg |-> Nil, err |-> TRUE, rest |-> << >>]
        ELSE IF Uint32(payloadLenBuf) = 0
        THEN [msg |-> Nil, err |-> FALSE, rest |-> after]
        ELSE IF Len(after) < Uint32(payloadLenBuf)
        THEN [msg |-> Nil, err |-> TRUE, rest |-> << >>]
        ELSE LET payloadLen == Uint32(payloadLenBuf)
                 msgBuf == SubSeq(after, 1, payloadLen)
             IN  [msg |-> Message(msgBuf[1], SubSeq(msgBuf, 2, payloadLen)),
                  err |-> FALSE,
                  rest |-> SubSeq(after, payloadLen + 1, Len(after))]

\* -------------------------------------------------------------------- peers
\* bytes of one peer in the compact list: 4 for IP and 2 for Port
peersSize == 6

\* an Unmarshal that parses the whole peers of a list and drops what is left
Unmarshal_dropPartial(peersBin) ==
  LET numPeers == Len(peersBin) \div peersSize
  IN  [peers |-> [i \in 1 .. numPeers |->
                    LET offset == (i - 1) * peersSize
                    IN  [IP |-> SubSeq(peersBin, offset + 1, offset + 4),
                         Port |-> peersBin[offset + 5] * 256
                                    + peersBin[offset + 6]]],
       err |-> FALSE]

\* peers.Unmarshal: [peers, err]; peer i of the loop (from 0) is element
\* i + 1 here
Unmarshal(peersBin) ==
  LET peersBinSize == Len(peersBin)
      numPeers == peersBinSize \div peersSize
  IN  IF peersBinSize % peersSize # 0 THEN [peers |-> << >>, err |-> TRUE]
      ELSE [peers |-> [i \in 1 .. numPeers |->
                         LET offset == (i - 1) * peersSize
                         IN  [IP |-> SubSeq(peersBin, offset + 1, offset + 4),
                              Port |-> peersBin[offset + 5] * 256
                                         + peersBin[offset + 6]]],
            err |-> FALSE]

\* ---------------------------------------------------------------- handshake
\* the number of bytes of an info-hash and of a peer id (common.Sha1Hash)
HashLen == 20

\* the bytes of "BitTorrent protocol"
BitTorrentPstr ==
  << 66, 105, 116, 84, 111, 114, 114, 101, 110, 116, 32,
     112, 114, 111, 116, 111, 99, 111, 108 >>

\* a Serialize that leaves out the eight reserved bytes
HandshakeSerialize_noReserved(hs) ==
  << Len(hs.Pstr) % 256 >> \o hs.Pstr \o hs.InfoHash \o hs.PeerId

\* Handshake.Serialize: the length of the protocol string in ONE byte
\* (byte(len(hs.Pstr)) keeps the low eight bits), the protocol string, eight
\* reserved zero bytes, the info-hash and the peer id
HandshakeSerialize(hs) ==
  << Len(hs.Pstr) % 256 >> \o hs.Pstr \o [i \in 1 .. 8 |-> 0]
     \o hs.InfoHash \o hs.PeerId

NoHandshake == [Pstr |-> << >>, InfoHash |-> << >>, PeerId |-> << >>]

\* handshake.Read from the bytes reader holds: [hs, err, rest], rest being
\* what the reader still holds afterwards
HandshakeRead(reader) ==
  IF Len(reader) < 1 THEN [hs |-> NoHandshake, err |-> TRUE, rest |-> << >>]
  ELSE
    LET protocolIdLength == reader[1]
        after == Tail(reader)
    IN  IF protocolIdLength = 0
        THEN [hs |-> NoHandshake, err |-> TRUE, rest |-> after]
        ELSE IF Len(after) < 48 + protocolIdLength
        THEN [hs |-> NoHandshake, err |-> TRUE, rest |-> << >>]
        ELSE LET handshakeBuf == SubSeq(after, 1, 48 + protocolIdLength)
                 offset == protocolIdLength + 8
             IN  [hs |-> [Pstr |-> SubSeq(handshakeBuf, 1, protocolIdLength),
                          InfoHash |-> SubSeq(handshakeBuf, offset + 1,
                                              offset + HashLen),
                          PeerId |-> SubSeq(handshakeBuf, offset + HashLen + 1,
                                            offset + 2 * HashLen)],
                  err |-> FALSE,
                  rest |-> SubSeq(after, 49 + protocolIdLength, Len(after))]

\* ------------------------------------------------------------------- digest
\* sha1.Sum, as a small digest of the whole buffer (collisions exist)
RECURSIVE Sha1Fold(_, _)
Sha1Fold(buf, h) ==
  IF buf = << >> THEN h ELSE Sha1Fold(Tail(buf), (3 * h + Head(buf) + 1) % 11)

Sha1(buf) == Sha1Fold(buf, 5)

\* an integrity check that accepts every buffer
checkIntegrity_skip(work, buf) == FALSE

\* checkIntegrity: TRUE when it returns an error
checkIntegrity(work, buf) == Sha1(buf) # work.Hash

\* ------------------------------------------------------------------ torrent
\* the content the torrent describes: byte k of the file
FileByte(k) == 1 + (k % 2)

\* number of pieces, len(torrent.PiecesHashes)
NumPieces(t) == Len(t.PiecesHashes)

\* bounds that let the last piece run past the end of the file
calculateBoundsForPiece_noClamp(t, index) ==
  LET start == index * t.PieceLength
      end == start + t.PieceLength
  IN  [start |-> start, end |-> end]

\* Torrent.calculateBoundsForPiece
calculateBoundsForPiece(t, index) ==
  LET start == index * t.PieceLength
      end == start + t.PieceLength
  IN  [start |-> start, end |-> IF end > t.Length THEN t.Length ELSE end]

\* Torrent.calculatePieceSize
calculatePieceSize(t, index) ==
  LET b == calculateBoundsForPiece(t, index) IN b.end - b.start

\* the bytes of piece index of the described file
GoodPiece(length, pieceLength, index) ==
  LET start == index * pieceLength
      end == Min(start + pieceLength, length)
  IN  [k \in 1 .. (end - start) |-> FileByte(start + k - 1)]

\* a torrent descriptor of L bytes in pieces of P bytes: n = ceil(L / P)
\* digests; peers is the list the tracker returned
MkTorrent(L, P, peers) ==
  [Length |-> L, PieceLength |-> P, Peers |-> peers,
   InfoHash |-> "infoHash", PeerId |-> "peerId",
   PiecesHashes |-> [i \in 1 .. ((L + P - 1) \div P) |-> Sha1(GoodPiece(L, P, i - 1))]]

\* the torrents a download run is started on (L bytes, pieces of P bytes):
\* the tracker returned every peer, two peers, or none
Torrents == { MkTorrent(3, 2, ps) : ps \in { Workers, 1 .. 2, {} } }

\* ----------------------------------------------------------------- channels
\* a receive that leaves the unit in the queue
Dequeue_peek(q) == q

\* <-workQueue (the range at line 294): the unit leaves the channel
Dequeue(q) == Tail(q)

\* a send that puts the unit on the queue twice
Enqueue_twice(q, work) == Append(Append(q, work), work)

\* workQueue <- pw
Enqueue(q, work) == Append(q, work)

\* make(chan *PieceWork, len(torrent.PiecesHashes))
QueueCap(t) == Len(t.PiecesHashes)

\* -------------------------------------------------------------------- state
VARIABLES
  torrent,          \* the Torrent descriptor (immutable after construction)
  workQueue,        \* buffered channel of *PieceWork, capacity n
  queueClosed,      \* close(workQueue) has run
  resultsClosed,    \* close(results) has run
  cpc,              \* where Torrent.Download (and main after it) stands
  err,              \* what Download returns: "unset", "nil" or "error"
  downloadedPiece,  \* Download's local: the last *PieceResult received
  donePieces,       \* Download's local counter
  writes,           \* the WriteAt calls that succeeded on the output file
  wpc,              \* where each startDownloadWorker goroutine stands
  torrentClient,    \* each worker's *client.Client
  pw,               \* each worker's current *PieceWork
  state,            \* each worker's PieceProgress of the running attempt
  requests,         \* the requests each worker sent in the running attempt
  elapsed,          \* seconds since each worker's running attempt began
  codec,            \* a message on its way through Serialize and Read
  dialogue,         \* what each peer answers while its session is set up
  call,             \* a call of one of the pure functions: its arguments and result
  frames,           \* the unchoke, interested and have frames each worker wrote on its session
  heard             \* the last choke or unchoke frame each worker processed (Nil: none yet)

vars == << torrent, workQueue, queueClosed, resultsClosed, cpc, err,
           downloadedPiece, donePieces, writes, wpc, torrentClient, pw,
           state, requests, elapsed, codec, dialogue, call, frames, heard >>

coordVars == << cpc, err, downloadedPiece, donePieces, writes >>
chanVars == << workQueue, queueClosed, resultsClosed >>

\* zero values of the locals
NoCall == [fn |-> "none", step |-> "in", in |-> << >>, out |-> << >>]
NoDeadline == << >>
NoClient == [Choked |-> TRUE, Bitfield |-> << >>, Conn |-> "none",
             Deadline |-> NoDeadline]
NoWork == [Index |-> -1, Hash |-> -1, Length |-> 0]
NoProgress == [Index |-> -1, Buf |-> << >>, Downloaded |-> 0, Requested |-> 0,
               Backlog |-> 0]
NoResult == [Index |-> -1, Buf |-> << >>]

\* make([]byte, n)
MakeBuf(n) == [k \in 1 .. n |-> 0]

\* no message is on its way through the codec
NoCodec == [phase |-> "idle", msg |-> Nil, tail |-> << >>, wire |-> << >>,
            out |-> [msg |-> Nil, err |-> FALSE, rest |-> << >>]]

\* a peer that cannot be reached
NoDialogue == [dial |-> FALSE, sent |-> FALSE,
               hs |-> [err |-> TRUE,
                       hs |-> [Pstr |-> "", InfoHash |-> "", PeerId |-> ""]],
               first |-> [err |-> TRUE, msg |-> Nil]]

\* the process runs: no goroutine has panicked
Alive == \A w \in Workers : wpc[w] # "panic"

\* the bitfields a peer may announce (one byte: pieces 0..7)
Bitfields == { << 192 >>, << 64 >> }

Init ==
  /\ torrent \in Torrents
  /\ workQueue = << >>
  /\ queueClosed = FALSE
  /\ resultsClosed = FALSE
  /\ cpc = "init"
  /\ err = "unset"
  /\ downloadedPiece = NoResult
  /\ donePieces = 0
  /\ writes = << >>
  /\ wpc = [w \in Workers |-> "unborn"]
  /\ torrentClient = [w \in Workers |-> NoClient]
  /\ pw = [w \in Workers |-> NoWork]
  /\ state = [w \in Workers |-> NoProgress]
  /\ requests = [w \in Workers |-> << >>]
  /\ elapsed = [w \in Workers |-> 0]
  /\ codec = NoCodec
  /\ dialogue = [w \in Workers |-> NoDialogue]
  /\ call = NoCall
  /\ frames = [w \in Workers |-> << >>]
  /\ heard = [w \in Workers |-> Nil]

\* -------------------------------------------------------------- coordinator
\* Download, up to the spawning of the workers: fill the queue, go worker(...)
Setup ==
  /\ cpc = "init"
  /\ workQueue' = [i \in 1 .. NumPieces(torrent) |->
                     [Index |-> i - 1, Hash |-> torrent.PiecesHashes[i],
                      Length |-> calculatePieceSize(torrent, i - 1)]]
  /\ wpc' = [w \in Workers |-> IF w \in torrent.Peers THEN "new" ELSE "unborn"]
  /\ cpc' = "create"
  /\ UNCHANGED << torrent, queueClosed, resultsClosed, err, downloadedPiece,
                  donePieces, writes, torrentClient, pw, state, requests, elapsed, codec, dialogue, call, frames, heard >>

\* os.Create(path): on an error Download returns it (the deferred closes run)
CreateFile(ok) ==
  /\ cpc = "create"
  /\ Alive
  /\ IF ok THEN cpc' = "collect" /\ err' = err
           ELSE cpc' = "closeResults" /\ err' = "error"
  /\ UNCHANGED << torrent, chanVars, downloadedPiece, donePieces, writes, wpc,
                  torrentClient, pw, state, requests, elapsed, codec, dialogue, call, frames, heard >>

\* the rendezvous on the unbuffered results channel: worker w's send
\* (results <- &PieceResult{...}) meets Download's receive (<-results)
Collect(w) ==
  /\ cpc = "collect"
  /\ Alive
  /\ wpc[w] = "publish"
  /\ ~resultsClosed
  /\ downloadedPiece' = [Index |-> pw[w].Index, Buf |-> state[w].Buf]
  /\ cpc' = "write"
  /\ wpc' = [wpc EXCEPT ![w] = "range"]
  /\ pw' = [pw EXCEPT ![w] = NoWork]
  /\ state' = [state EXCEPT ![w] = NoProgress]
  /\ requests' = [requests EXCEPT ![w] = << >>]
  /\ UNCHANGED << torrent, chanVars, err, donePieces, writes, torrentClient, elapsed, codec, dialogue, call, frames, heard >>

\* an offset that follows the order of arrival instead of the piece index
WriteOffset_arrival(t, index) == donePieces * t.PieceLength

\* start, _ = torrent.calculateBoundsForPiece(downloadedPiece.Index)
WriteOffset(t, index) == calculateBoundsForPiece(t, index).start

\* outputFile.WriteAt(buf, start), donePieces++, and the loop test
WritePiece(ok) ==
  /\ cpc = "write"
  /\ Alive
  /\ LET start == WriteOffset(torrent, downloadedPiece.Index)
     IN  IF ok
         THEN /\ writes' = Append(writes, [Index |-> downloadedPiece.Index,
                                           Offset |-> start,
                                           Buf |-> downloadedPiece.Buf])
              /\ donePieces' = donePieces + 1
              /\ IF donePieces + 1 # NumPieces(torrent)
                 THEN cpc' = "collect" /\ err' = err
                 ELSE cpc' = "closeResults" /\ err' = "nil"
         ELSE /\ writes' = writes
              /\ donePieces' = donePieces
              /\ cpc' = "closeResults"
              /\ err' = "error"
  /\ UNCHANGED << torrent, chanVars, downloadedPiece, wpc, torrentClient, pw,
                  state, requests, elapsed, codec, dialogue, call, frames, heard >>

\* deferred close(results)
CloseResults ==
  /\ cpc = "closeResults"
  /\ Alive
  /\ resultsClosed' = TRUE
  /\ cpc' = "closeQueue"
  /\ UNCHANGED << torrent, workQueue, queueClosed, err, downloadedPiece,
                  donePieces, writes, wpc, torrentClient, pw, state, requests, elapsed, codec, dialogue, call, frames, heard >>

\* a return that leaves the work queue open
CloseWorkQueue_open ==
  /\ cpc = "closeQueue"
  /\ Alive
  /\ cpc' = "returned"
  /\ UNCHANGED << torrent, workQueue, queueClosed, resultsClosed, err,
                  downloadedPiece, donePieces, writes, wpc, torrentClient, pw,
                  state, requests, elapsed, codec, dialogue, call, frames, heard >>

\* deferred close(workQueue); Download has then returned err
CloseWorkQueue ==
  /\ cpc = "closeQueue"
  /\ Alive
  /\ queueClosed' = TRUE
  /\ cpc' = "returned"
  /\ UNCHANGED << torrent, workQueue, resultsClosed, err, downloadedPiece,
                  donePieces, writes, wpc, torrentClient, pw, state, requests, elapsed, codec, dialogue, call, frames, heard >>

\* ------------------------------------------------------------------- worker
\* leaving startDownloadWorker: the deferred torrentClient.Conn.Close() runs
CloseConn(c) == [c EXCEPT !.Conn = IF @ = "open" THEN "closed" ELSE @]

\* conn.SetDeadline(time.Now().Add(d)), at second now
SetDeadline(c, now, d) == [c EXCEPT !.Deadline = << now + d >>]

\* a deferred call that leaves the deadline in place
ClearDeadline_keep(c) == c

\* the deferred conn.SetDeadline(time.Time{}): no deadline
ClearDeadline(c) == [c EXCEPT !.Deadline = NoDeadline]

\* a write or read on the connection at second now fails once the deadline
\* has passed
Expired(c, now) == c.Deadline # NoDeadline /\ now >= c.Deadline[1]

\* handshake.New(infoHash, peerId)
Handshake(infoHash, peerId) ==
  [Pstr |-> "BitTorrent protocol", InfoHash |-> infoHash, PeerId |-> peerId]

\* a handshake that does not compare the info-hash
CompleteHandshake_anyHash(c, t, now, sent, res) ==
  [conn |-> ClearDeadline(SetDeadline(c, now, HandshakeDeadline)),
   err |-> ~sent \/ res.err]

\* client.CompleteHandshake on connection c: sent tells whether the write of
\* our handshake went through, res is what handshake.Read returned;
\* [conn, err]
CompleteHandshake(c, t, now, sent, res) ==
  LET d == SetDeadline(c, now, HandshakeDeadline)
  IN  [conn |-> ClearDeadline(d),
       err |-> ~sent \/ res.err \/ res.hs.InfoHash # t.InfoHash]

\* client.RecvBitField on what message.Read returned; msg.Id on the nil
\* *Message of a keep-alive is a nil dereference: [conn, bitfield, err, panic]
RecvBitField(c, now, r) ==
  LET d == ClearDeadline(SetDeadline(c, now, BitfieldDeadline))
  IN  IF r.err
      THEN [conn |-> d, bitfield |-> << >>, err |-> TRUE, panic |-> FALSE]
      ELSE IF r.msg = Nil
      THEN [conn |-> d, bitfield |-> << >>, err |-> FALSE, panic |-> TRUE]
      ELSE IF r.msg.Id # MsgBitfield
      THEN [conn |-> d, bitfield |-> << >>, err |-> TRUE, panic |-> FALSE]
      ELSE [conn |-> d, bitfield |-> r.msg.Payload, err |-> FALSE, panic |-> FALSE]

\* client.New against a peer that answers as d tells: [client, err, panic].
\* With err the returned *Client is nil, and the record only carries what
\* became of the connection (the cleanup label closes it).
New(t, now, d) ==
  IF ~d.dial THEN [client |-> NoClient, err |-> TRUE, panic |-> FALSE]
  ELSE
    LET conn == [NoClient EXCEPT !.Conn = "open"]
        h == CompleteHandshake(conn, t, now, d.sent, d.hs)
        b == RecvBitField(h.conn, now, d.first)
    IN  IF h.err THEN [client |-> CloseConn(h.conn), err |-> TRUE, panic |-> FALSE]
        ELSE IF b.panic THEN [client |-> b.conn, err |-> FALSE, panic |-> TRUE]
        ELSE IF b.err THEN [client |-> CloseConn(b.conn), err |-> TRUE, panic |-> FALSE]
        ELSE [client |-> [Choked |-> TRUE, Bitfield |-> b.bitfield,
                          Conn |-> "open", Deadline |-> b.conn.Deadline],
              err |-> FALSE, panic |-> FALSE]

\* the first statement of startDownloadWorker: client.New(peer, ...); on an
\* error the worker returns, a panic takes the process down
NewClient(w, d) ==
  /\ wpc[w] = "new"
  /\ Alive
  /\ LET n == New(torrent, elapsed[w], d)
     IN  /\ torrentClient' = [torrentClient EXCEPT ![w] = n.client]
         /\ wpc' = [wpc EXCEPT ![w] = IF n.panic THEN "panic"
                                      ELSE IF n.err THEN "exit" ELSE "unchoke"]
  /\ UNCHANGED << torrent, chanVars, coordVars, pw, state, requests, elapsed, codec, dialogue, call, frames, heard >>

\* torrentClient.SendUnchoke() (its error is dropped)
SendUnchoke(w) ==
  /\ wpc[w] = "unchoke"
  /\ Alive
  /\ wpc' = [wpc EXCEPT ![w] = "interested"]
  /\ frames' = [frames EXCEPT ![w] = Append(@, Message(MsgUnchoke, << >>))]
  /\ UNCHANGED << torrent, chanVars, coordVars, torrentClient, pw, state,
                  requests, elapsed, codec, dialogue, call, heard >>

\* a worker that goes on without telling the peer it is interested
SendInterested_silent(w) ==
  /\ wpc[w] = "interested"
  /\ Alive
  /\ wpc' = [wpc EXCEPT ![w] = "range"]
  /\ frames' = frames
  /\ UNCHANGED << torrent, chanVars, coordVars, torrentClient, pw, state,
                  requests, elapsed, codec, dialogue, call, heard >>

\* torrentClient.SendInterested() (its error is dropped)
SendInterested(w) ==
  /\ wpc[w] = "interested"
  /\ Alive
  /\ wpc' = [wpc EXCEPT ![w] = "range"]
  /\ frames' = [frames EXCEPT ![w] = Append(@, Message(MsgInterested, << >>))]
  /\ UNCHANGED << torrent, chanVars, coordVars, torrentClient, pw, state,
                  requests, elapsed, codec, dialogue, call, heard >>

\* for pw := range workQueue: take the next unit; without the piece in the
\* peer's bitfield go and put it back, else enter attemptDownloadPiece
Take(w) ==
  /\ wpc[w] = "range"
  /\ Alive
  /\ workQueue # << >>
  /\ LET work == Head(workQueue)
     IN  /\ workQueue' = Dequeue(workQueue)
         /\ pw' = [pw EXCEPT ![w] = work]
         /\ IF ~HasPiece(torrentClient[w].Bitfield, work.Index)
            THEN /\ wpc' = [wpc EXCEPT ![w] = "requeueSkip"]
                 /\ state' = state
                 /\ torrentClient' = torrentClient
            ELSE /\ wpc' = [wpc EXCEPT ![w] = "attempt"]
                 /\ state' = [state EXCEPT ![w] =
                       [Index |-> work.Index, Buf |-> MakeBuf(work.Length),
                        Downloaded |-> 0, Requested |-> 0, Backlog |-> 0]]
                 /\ torrentClient' = [torrentClient EXCEPT ![w] =
                       SetDeadline(@, 0, PieceDeadline)]
  /\ requests' = [requests EXCEPT ![w] = << >>]
  /\ elapsed' = [elapsed EXCEPT ![w] = 0]
  /\ UNCHANGED << torrent, queueClosed, resultsClosed, coordVars, codec,
                  dialogue, call, frames, heard >>

\* range over a closed and drained queue ends the loop; the worker returns
RangeClosed(w) ==
  /\ wpc[w] = "range"
  /\ Alive
  /\ workQueue = << >>
  /\ queueClosed
  /\ wpc' = [wpc EXCEPT ![w] = "exit"]
  /\ torrentClient' = [torrentClient EXCEPT ![w] = CloseConn(@)]
  /\ UNCHANGED << torrent, chanVars, coordVars, pw, state, requests, elapsed, codec, dialogue, call, frames, heard >>

\* workQueue <- pw at lines 297, 305 and 312: the send blocks while the queue
\* is full and panics on a closed queue; then continue, or return after an
\* error of the attempt
Requeue(w) ==
  /\ wpc[w] \in {"requeueSkip", "requeueErr", "requeueBad"}
  /\ Alive
  /\ IF queueClosed
     THEN /\ wpc' = [wpc EXCEPT ![w] = "panic"]
          /\ torrentClient' = [torrentClient EXCEPT ![w] = CloseConn(@)]
          /\ UNCHANGED << workQueue, pw >>
     ELSE /\ Len(workQueue) < QueueCap(torrent)
          /\ workQueue' = Enqueue(workQueue, pw[w])
          /\ pw' = [pw EXCEPT ![w] = NoWork]
          /\ IF wpc[w] = "requeueErr"
             THEN /\ wpc' = [wpc EXCEPT ![w] = "exit"]
                  /\ torrentClient' = [torrentClient EXCEPT ![w] = CloseConn(@)]
             ELSE /\ wpc' = [wpc EXCEPT ![w] = "range"]
                  /\ torrentClient' = torrentClient
  /\ UNCHANGED << torrent, queueClosed, resultsClosed, coordVars, state,
                  requests, elapsed, codec, dialogue, call, frames, heard >>

\* a block size that forgets the shorter last block
BlockSize_full(work, progress) == MaxBlockSize

\* the block size of the next request: min(MaxBlockSize, pw.Length - Requested)
BlockSize(work, progress) ==
  LET remainingBytes == work.Length - progress.Requested
  IN  IF remainingBytes < MaxBlockSize THEN remainingBytes ELSE MaxBlockSize

\* a counter of requested bytes that does not advance
NextRequested_repeat(progress, blockSize) == progress.Requested

\* state.Requested += blockSize
NextRequested(progress, blockSize) == progress.Requested + blockSize

\* an inner loop that does not look at the choked flag
MaySend_ignoreChoke(w) ==
  /\ state[w].Backlog # MaxBacklog
  /\ state[w].Requested < pw[w].Length

\* the inner loop of attemptDownloadPiece may send one more request
MaySend(w) ==
  /\ ~torrentClient[w].Choked
  /\ state[w].Backlog # MaxBacklog
  /\ state[w].Requested < pw[w].Length

\* one pass of the inner loop: SendRequest(pw.Index, Requested, blockSize);
\* the write fails past the connection's deadline, and an error ends the
\* attempt (its deferred SetDeadline(time.Time{}) runs)
SendRequest(w, ok) ==
  /\ wpc[w] = "attempt"
  /\ Alive
  /\ state[w].Downloaded < pw[w].Length
  /\ MaySend(w)
  /\ ok => ~Expired(torrentClient[w], elapsed[w])
  /\ LET blockSize == BlockSize(pw[w], state[w])
     IN  IF ok
         THEN /\ requests' = [requests EXCEPT ![w] = Append(@,
                     [index |-> pw[w].Index, begin |-> state[w].Requested,
                      length |-> blockSize])]
              /\ state' = [state EXCEPT ![w].Backlog = @ + 1,
                                        ![w].Requested =
                                           NextRequested(state[w], blockSize)]
              /\ wpc' = wpc
              /\ torrentClient' = torrentClient
         ELSE /\ requests' = requests
              /\ state' = [state EXCEPT ![w] = NoProgress]
              /\ wpc' = [wpc EXCEPT ![w] = "requeueErr"]
              /\ torrentClient' = [torrentClient EXCEPT ![w] = ClearDeadline(@)]
  /\ UNCHANGED << torrent, chanVars, coordVars, pw, elapsed, codec, dialogue, call, frames, heard >>

\* a ReadMessage that takes no notice of a choke
ApplyMessage_ignoreChoke(progress, client, r) ==
  IF r.err THEN [progress |-> progress, client |-> client, err |-> TRUE]
  ELSE IF r.msg = Nil THEN [progress |-> progress, client |-> client, err |-> FALSE]
  ELSE IF r.msg.Id = MsgChoke
    THEN [progress |-> progress, client |-> client,
          err |-> FALSE]
  ELSE IF r.msg.Id = MsgUnchoke
    THEN [progress |-> progress, client |-> [client EXCEPT !.Choked = FALSE],
          err |-> FALSE]
  ELSE IF r.msg.Id = MsgHave
    THEN LET h == ParseHave(r.msg)
         IN  IF h.err THEN [progress |-> progress, client |-> client, err |-> TRUE]
             ELSE [progress |-> progress,
                   client |-> [client EXCEPT !.Bitfield = SetPiece(@, h.index)],
                   err |-> FALSE]
  ELSE IF r.msg.Id = MsgPiece
    THEN LET p == ParsePiece(progress.Index, progress.Buf, r.msg)
         IN  IF p.err THEN [progress |-> progress, client |-> client, err |-> TRUE]
             ELSE [progress |-> [progress EXCEPT !.Buf = p.buf,
                                                 !.Downloaded = @ + p.n,
                                                 !.Backlog = @ - 1],
                   client |-> client, err |-> FALSE]
  ELSE [progress |-> progress, client |-> client, err |-> FALSE]

\* a ReadMessage that fails on a frame it has no case for
ApplyMessage_strict(progress, client, r) ==
  IF r.err THEN [progress |-> progress, client |-> client, err |-> TRUE]
  ELSE IF r.msg = Nil THEN [progress |-> progress, client |-> client, err |-> FALSE]
  ELSE IF r.msg.Id = MsgChoke
    THEN [progress |-> progress, client |-> [client EXCEPT !.Choked = TRUE],
          err |-> FALSE]
  ELSE IF r.msg.Id = MsgUnchoke
    THEN [progress |-> progress, client |-> [client EXCEPT !.Choked = FALSE],
          err |-> FALSE]
  ELSE IF r.msg.Id = MsgHave
    THEN LET h == ParseHave(r.msg)
         IN  IF h.err THEN [progress |-> progress, client |-> client, err |-> TRUE]
             ELSE [progress |-> progress,
                   client |-> [client EXCEPT !.Bitfield = SetPiece(@, h.index)],
                   err |-> FALSE]
  ELSE IF r.msg.Id = MsgPiece
    THEN LET p == ParsePiece(progress.Index, progress.Buf, r.msg)
         IN  IF p.err THEN [progress |-> progress, client |-> client, err |-> TRUE]
             ELSE [progress |-> [progress EXCEPT !.Buf = p.buf,
                                                 !.Downloaded = @ + p.n,
                                                 !.Backlog = @ - 1],
                   client |-> client, err |-> FALSE]
  ELSE [progress |-> progress, client |-> client, err |-> TRUE]

\* PieceProgress.ReadMessage on what Client.Read returned: r.err, or r.msg
\* (Nil for a keep-alive); [progress, client, err]
ApplyMessage(progress, client, r) ==
  IF r.err THEN [progress |-> progress, client |-> client, err |-> TRUE]
  ELSE IF r.msg = Nil THEN [progress |-> progress, client |-> client, err |-> FALSE]
  ELSE IF r.msg.Id = MsgChoke
    THEN [progress |-> progress, client |-> [client EXCEPT !.Choked = TRUE],
          err |-> FALSE]
  ELSE IF r.msg.Id = MsgUnchoke
    THEN [progress |-> progress, client |-> [client EXCEPT !.Choked = FALSE],
          err |-> FALSE]
  ELSE IF r.msg.Id = MsgHave
    THEN LET h == ParseHave(r.msg)
         IN  IF h.err THEN [progress |-> progress, client |-> client, err |-> TRUE]
             ELSE [progress |-> progress,
                   client |-> [client EXCEPT !.Bitfield = SetPiece(@, h.index)],
                   err |-> FALSE]
  ELSE IF r.msg.Id = MsgPiece
    THEN LET p == ParsePiece(progress.Index, progress.Buf, r.msg)
         IN  IF p.err THEN [progress |-> progress, client |-> client, err |-> TRUE]
             ELSE [progress |-> [progress EXCEPT !.Buf = p.buf,
                                                 !.Downloaded = @ + p.n,
                                                 !.Backlog = @ - 1],
                   client |-> client, err |-> FALSE]
  ELSE [progress |-> progress, client |-> client, err |-> FALSE]

\* Client.Read called at second now: it sets its own deadline on the
\* connection, blocks in message.Read, and clears the deadline as it returns;
\* the connection afterwards
ClientRead(c, now) == ClearDeadline(SetDeadline(c, now, ReadDeadline))

\* the outer loop of attemptDownloadPiece reads one message once the inner
\* loop has nothing more to send; the read returns after d seconds, with a
\* frame that arrived before Client.Read's deadline or with an error (the
\* timeout at the deadline, or a transport error before it); an error ends
\* the attempt
ReadMessage(w, r, d) ==
  /\ wpc[w] = "attempt"
  /\ Alive
  /\ state[w].Downloaded < pw[w].Length
  /\ ~MaySend(w)
  /\ d \in 0 .. ReadDeadline
  /\ r.err \/ d < ReadDeadline
  /\ elapsed[w] + d <= MaxElapsed
  /\ LET c == ClientRead(torrentClient[w], elapsed[w])
         a == ApplyMessage(state[w], c, r)
     IN  /\ a.progress.Backlog >= -MaxSpurious
         /\ IF a.err
            THEN /\ state' = [state EXCEPT ![w] = NoProgress]
                 /\ wpc' = [wpc EXCEPT ![w] = "requeueErr"]
                 /\ torrentClient' = [torrentClient EXCEPT ![w] =
                       ClearDeadline(a.client)]
            ELSE /\ state' = [state EXCEPT ![w] = a.progress]
                 /\ wpc' = wpc
                 /\ torrentClient' = [torrentClient EXCEPT ![w] = a.client]
  /\ elapsed' = [elapsed EXCEPT ![w] = @ + d]
  /\ heard' = [heard EXCEPT ![w] =
                 IF ~r.err /\ r.msg # Nil /\ r.msg.Id \in {MsgChoke, MsgUnchoke}
                 THEN r.msg ELSE @]
  /\ UNCHANGED << torrent, chanVars, coordVars, pw, requests, codec, dialogue,
                  call, frames >>

\* attemptDownloadPiece returns state.Buf; then checkIntegrity(pw, buf)
AttemptDone(w) ==
  /\ wpc[w] = "attempt"
  /\ Alive
  /\ ~(state[w].Downloaded < pw[w].Length)
  /\ torrentClient' = [torrentClient EXCEPT ![w] = ClearDeadline(@)]
  /\ IF checkIntegrity(pw[w], state[w].Buf)
     THEN /\ wpc' = [wpc EXCEPT ![w] = "requeueBad"]
          /\ state' = [state EXCEPT ![w] = NoProgress]
     ELSE /\ wpc' = [wpc EXCEPT ![w] = "have"]
          /\ state' = state
  /\ UNCHANGED << torrent, chanVars, coordVars, pw, requests, elapsed, codec, dialogue, call, frames, heard >>

\* torrentClient.SendHave(pw.Index) (its error is dropped)
SendHave(w) ==
  /\ wpc[w] = "have"
  /\ Alive
  /\ wpc' = [wpc EXCEPT ![w] = "publish"]
  /\ frames' = [frames EXCEPT ![w] = Append(@, FormatHave(pw[w].Index))]
  /\ UNCHANGED << torrent, chanVars, coordVars, torrentClient, pw, state,
                  requests, elapsed, codec, dialogue, call, heard >>

\* results <- ... on a closed results channel panics
PublishClosed(w) ==
  /\ wpc[w] = "publish"
  /\ Alive
  /\ resultsClosed
  /\ wpc' = [wpc EXCEPT ![w] = "panic"]
  /\ torrentClient' = [torrentClient EXCEPT ![w] = CloseConn(@)]
  /\ UNCHANGED << torrent, chanVars, coordVars, pw, state, requests, elapsed, codec, dialogue, call, frames, heard >>


\* -------------------------------------------------------------- environment
\* what a peer may put on the wire while worker w downloads its piece
PieceMsg(index, begin, data) ==
  Message(MsgPiece, PutUint32(index) \o PutUint32(begin) \o data)

\* the true bytes of the piece of unit work from offset begin on
GoodBlock(work, begin, n) ==
  [k \in 1 .. n |-> FileByte(work.Index * torrent.PieceLength + begin + k - 1)]

\* bytes that are not the file's
BadBlock(n) == [k \in 1 .. n |-> 7]

\* any peer: every kind of frame, pieces at any offset and of any length up
\* to one more than a block, right or wrong bytes, malformed ones, a failed read
AttemptMsgs(w) ==
  { Nil }
  \cup { Message(id, << >>) : id \in {MsgChoke, MsgUnchoke, MsgInterested,
           MsgNotInterested, MsgBitfield, MsgRequest, MsgCancel, 9} }
  \cup { FormatHave(i) : i \in {0, 1, 9} }
  \cup { Message(MsgHave, << 0 >>), Message(MsgPiece, << 0, 0, 0 >>),
         PieceMsg(pw[w].Index + 1, 0, << >>), PieceMsg(pw[w].Index, 256, << >>) }
  \cup { PieceMsg(pw[w].Index, b, GoodBlock(pw[w], b, n)) :
           b \in 0 .. pw[w].Length, n \in 0 .. MaxBlockSize + 1 }
  \cup { PieceMsg(pw[w].Index, b, BadBlock(n)) :
           b \in 0 .. pw[w].Length, n \in 1 .. MaxBlockSize + 1 }

\* the peers of a whole download run: an unchoke, and whole blocks at block
\* boundaries (asked for or not, repeated or not), right or corrupt
DownloadMsgs(w) ==
  { Message(MsgUnchoke, << >>) }
  \cup UNION { { PieceMsg(pw[w].Index, b, GoodBlock(pw[w], b, Min(MaxBlockSize, pw[w].Length - b))),
                 PieceMsg(pw[w].Index, b, BadBlock(Min(MaxBlockSize, pw[w].Length - b))) } :
               b \in { x \in 0 .. pw[w].Length - 1 : x % MaxBlockSize = 0 } }

\* what Client.Read returns: an error, or one of the messages msgs
ReadResults(msgs) ==
  { [err |-> TRUE, msg |-> Nil] } \cup { [err |-> FALSE, msg |-> m] : m \in msgs }

\* what handshake.Read may return: an error, or the peer's handshake with
\* this or another protocol string and this or another info-hash
HandshakeReplies ==
  { [err |-> TRUE, hs |-> NoDialogue.hs.hs] }
  \cup { [err |-> FALSE, hs |-> [Pstr |-> p, InfoHash |-> h, PeerId |-> "remote"]] :
           p \in {"BitTorrent protocol", "other protocol"},
           h \in {"infoHash", "otherHash"} }

\* how a peer may answer while the session is set up: the dial succeeds or
\* not, our handshake is written or not, the peer's handshake, and the first
\* frame after it (a bitfield out of bfs, a keep-alive, another message, or
\* a failed read)
Dialogues(bfs) ==
  [dial : BOOLEAN, sent : BOOLEAN, hs : HandshakeReplies,
   first : ReadResults({ Nil, Message(MsgUnchoke, << >>), FormatHave(0) }
                       \cup { Message(MsgBitfield, bf) : bf \in bfs })]

\* the peers of a whole download run: one that cannot be reached, and those
\* that answer with this or another info-hash and then a bitfield, a
\* keep-alive or an unchoke
DownloadDialogues ==
  { NoDialogue }
  \cup { d \in Dialogues(Bitfields) :
           /\ d.dial /\ d.sent /\ ~d.hs.err /\ ~d.first.err
           /\ d.hs.hs.Pstr = "BitTorrent protocol"
           /\ d.first.msg # FormatHave(0) }

\* ------------------------------------------------------------ specifications
WorkerStep(w) ==
  \/ \E d \in DownloadDialogues : NewClient(w, d)
  \/ SendUnchoke(w)
  \/ SendInterested(w)
  \/ Take(w)
  \/ RangeClosed(w)
  \/ Requeue(w)
  \/ \E ok \in BOOLEAN : SendRequest(w, ok)
  \/ \E r \in ReadResults(DownloadMsgs(w)) : ReadMessage(w, r, 0)
  \/ AttemptDone(w)
  \/ SendHave(w)
  \/ PublishClosed(w)
  \/ Collect(w)

Next ==
  \/ Setup
  \/ \E ok \in BOOLEAN : CreateFile(ok)
  \/ \E ok \in BOOLEAN : WritePiece(ok)
  \/ CloseResults
  \/ CloseWorkQueue
  \/ \E w \in Workers : WorkerStep(w)

\* a whole download run
Spec == Init /\ [][Next]_vars

\* the steps of the goroutine that runs Download
CoordStep ==
  \/ Setup
  \/ \E ok \in BOOLEAN : CreateFile(ok)
  \/ \E ok \in BOOLEAN : WritePiece(ok)
  \/ CloseResults
  \/ CloseWorkQueue

\* the Go scheduler: a goroutine that can run does run
Fairness ==
  /\ WF_vars(CoordStep)
  /\ \A w \in Workers : WF_vars(WorkerStep(w))

\* a download run from two peers
FairInit == Init /\ torrent.Peers = 1 .. 2

\* a download run from two peers under the scheduler
SpecFair == FairInit /\ [][Next]_vars /\ Fairness

\* a download run from a faulty and a correct peer: worker 2's peer has every
\* piece, answers the set-up as it should, unchokes, and serves each request
\* in turn with the right block; worker 1's peer answers the set-up as it
\* should and is then any peer of a download run, one that may also choke;
\* the output file takes every write
Honest == { 2 }

HonestDialogue ==
  [dial |-> TRUE, sent |-> TRUE,
   hs |-> [err |-> FALSE, hs |-> Handshake("infoHash", "remote")],
   first |-> [err |-> FALSE, msg |-> Message(MsgBitfield, << 192 >>)]]

\* the correct peer's next frame: an unchoke while the session is choked,
\* else the block of the oldest request not yet served
HonestMsgs(w) ==
  IF torrentClient[w].Choked THEN { Message(MsgUnchoke, << >>) }
  ELSE IF state[w].Backlog > 0 /\ state[w].Backlog <= Len(requests[w])
  THEN LET req == requests[w][Len(requests[w]) - state[w].Backlog + 1]
       IN  { PieceMsg(req.index, req.begin, GoodBlock(pw[w], req.begin, req.length)) }
  ELSE { }

\* the faulty peer's frames
FaultyMsgs(w) == { Message(MsgChoke, << >>) } \cup DownloadMsgs(w)

HonestStep(w) ==
  \/ NewClient(w, HonestDialogue)
  \/ SendUnchoke(w)
  \/ SendInterested(w)
  \/ Take(w)
  \/ RangeClosed(w)
  \/ Requeue(w)
  \/ SendRequest(w, TRUE)
  \/ \E m \in HonestMsgs(w) : ReadMessage(w, [err |-> FALSE, msg |-> m], 0)
  \/ AttemptDone(w)
  \/ SendHave(w)
  \/ Collect(w)

FaultyStep(w) ==
  \/ \E bf \in Bitfields :
       NewClient(w, [HonestDialogue EXCEPT !.first.msg = Message(MsgBitfield, bf)])
  \/ SendUnchoke(w)
  \/ SendInterested(w)
  \/ Take(w)
  \/ RangeClosed(w)
  \/ Requeue(w)
  \/ \E ok \in BOOLEAN : SendRequest(w, ok)
  \/ \E r \in ReadResults(FaultyMsgs(w)) : ReadMessage(w, r, 0)
  \/ AttemptDone(w)
  \/ SendHave(w)
  \/ Collect(w)

FaultyCoordStep ==
  \/ Setup
  \/ CreateFile(TRUE)
  \/ WritePiece(TRUE)
  \/ CloseResults
  \/ CloseWorkQueue

FaultyNext ==
  \/ FaultyCoordStep
  \/ \E w \in Honest : HonestStep(w)
  \/ \E w \in Workers \ Honest : FaultyStep(w)

\* the scheduler runs every goroutine that can run, and a receiver parked on
\* the work queue is handed the next unit sent to it (the channel's
\* receivers are served in the order they arrived)
FaultyFairness ==
  /\ WF_vars(FaultyCoordStep)
  /\ \A w \in Honest : WF_vars(HonestStep(w)) /\ SF_vars(Take(w))
  /\ \A w \in Workers \ Honest : WF_vars(FaultyStep(w))

SpecFaulty == FairInit /\ [][FaultyNext]_vars /\ FaultyFairness

\* one piece attempt of one session against any peer: worker 1 has taken the
\* only unit of a one-piece torrent, the session is choked or not, the other
\* workers' sessions failed to set up
AttemptInit ==
  /\ torrent \in { MkTorrent(L, L, Workers) : L \in 1 .. MaxPieceLen }
  /\ workQueue = << >>
  /\ queueClosed = FALSE
  /\ resultsClosed = FALSE
  /\ cpc = "collect"
  /\ err = "unset"
  /\ downloadedPiece = NoResult
  /\ donePieces = 0
  /\ writes = << >>
  /\ wpc = [w \in Workers |-> IF w = 1 THEN "attempt" ELSE "exit"]
  /\ torrentClient \in { [w \in Workers |-> IF w = 1
                             THEN [Choked |-> c, Bitfield |-> << 128 >>, Conn |-> "open",
                                   Deadline |-> << PieceDeadline >>]
                             ELSE NoClient] : c \in BOOLEAN }
  /\ pw = [w \in Workers |-> IF w = 1
             THEN [Index |-> 0, Hash |-> torrent.PiecesHashes[1],
                   Length |-> calculatePieceSize(torrent, 0)]
             ELSE NoWork]
  /\ state = [w \in Workers |-> IF w = 1
                THEN [Index |-> 0, Buf |-> MakeBuf(calculatePieceSize(torrent, 0)),
                      Downloaded |-> 0, Requested |-> 0, Backlog |-> 0]
                ELSE NoProgress]
  /\ requests = [w \in Workers |-> << >>]
  /\ elapsed = [w \in Workers |-> 0]
  /\ codec = NoCodec
  /\ dialogue = [w \in Workers |-> NoDialogue]
  /\ call = NoCall
  /\ frames = [w \in Workers |-> IF w = 1
                 THEN << Message(MsgUnchoke, << >>), Message(MsgInterested, << >>) >>
                 ELSE << >>]
  /\ heard = [w \in Workers |-> IF w = 1 /\ ~torrentClient[w].Choked
                THEN Message(MsgUnchoke, << >>) ELSE Nil]

AttemptNext ==
  \E w \in Workers :
    \/ \E ok \in BOOLEAN : SendRequest(w, ok)
    \/ \E r \in ReadResults(AttemptMsgs(w)) : ReadMessage(w, r, 0)
    \/ AttemptDone(w)

SpecAttempt == AttemptInit /\ [][AttemptNext]_vars

\* the frames ReadMessage's switch has no case for: interested,
\* not-interested, bitfield, request, cancel and an unknown id, with or
\* without a payload
OtherMsgs ==
  { Message(id, p) : id \in {MsgInterested, MsgNotInterested, MsgBitfield,
                              MsgRequest, MsgCancel, 9},
                     p \in { << >>, << 0 >> } }

\* one piece attempt with the clock running: every read returns after 0 to
\* ReadDeadline seconds; the peer sends keep-alives, unchokes, blocks and
\* frames the client has no use for
TimedMsgs(w) == { Nil } \cup OtherMsgs \cup DownloadMsgs(w)

TimedNext ==
  \E w \in Workers :
    \/ \E ok \in BOOLEAN : SendRequest(w, ok)
    \/ \E r \in ReadResults(TimedMsgs(w)), d \in 0 .. ReadDeadline :
         ReadMessage(w, r, d)
    \/ AttemptDone(w)

SpecTimed == AttemptInit /\ [][TimedNext]_vars

\* the set-up of one session: Download has spawned the worker of the only
\* peer the tracker returned, and the peer answers as dialogue tells
SetupInit ==
  /\ torrent = MkTorrent(3, 2, {1})
  /\ workQueue = [i \in 1 .. NumPieces(torrent) |->
                    [Index |-> i - 1, Hash |-> torrent.PiecesHashes[i],
                     Length |-> calculatePieceSize(torrent, i - 1)]]
  /\ queueClosed = FALSE
  /\ resultsClosed = FALSE
  /\ cpc = "create"
  /\ err = "unset"
  /\ downloadedPiece = NoResult
  /\ donePieces = 0
  /\ writes = << >>
  /\ wpc = [w \in Workers |-> IF w \in torrent.Peers THEN "new" ELSE "unborn"]
  /\ torrentClient = [w \in Workers |-> NoClient]
  /\ pw = [w \in Workers |-> NoWork]
  /\ state = [w \in Workers |-> NoProgress]
  /\ requests = [w \in Workers |-> << >>]
  /\ elapsed = [w \in Workers |-> 0]
  /\ codec = NoCodec
  /\ dialogue \in { [w \in Workers |-> IF w \in torrent.Peers THEN d ELSE NoDialogue] :
                      d \in Dialogues(Bitfields \cup { << >>, << 255, 1 >> }) }
  /\ call = NoCall
  /\ frames = [w \in Workers |-> << >>]
  /\ heard = [w \in Workers |-> Nil]

SetupNext ==
  \E w \in Workers :
    \/ NewClient(w, dialogue[w])
    \/ SendUnchoke(w)
    \/ SendInterested(w)

SpecSetup == SetupInit /\ [][SetupNext]_vars

\* a message on its way through the codec: the sender writes
\* msg.Serialize() on the connection, and message.Read takes it off at the
\* other end, where the bytes tail follow it
CodecPayloads == UNION { [1 .. n -> {0, 5, 255}] : n \in 0 .. MaxPayload }

CodecMsgs ==
  { Nil } \cup { Message(id, p) : id \in MsgChoke .. MsgCancel, p \in CodecPayloads }

CodecTails == { << >>, << 0 >>, << 0, 0, 0, 1, 5 >> }

WireWrite ==
  /\ codec.phase = "msg"
  /\ codec' = [codec EXCEPT !.phase = "wire",
                            !.wire = Serialize(codec.msg) \o codec.tail]
  /\ UNCHANGED << torrent, chanVars, coordVars, wpc, torrentClient, pw, state,
                  requests, elapsed, dialogue, call, frames, heard >>

\* the connection ends early: of the bytes written only the first k reach
\* the reader
WireCut ==
  /\ codec.phase = "wire"
  /\ \E k \in 0 .. Len(codec.wire) - 1 :
       codec' = [codec EXCEPT !.phase = "cut",
                              !.wire = SubSeq(codec.wire, 1, k)]
  /\ UNCHANGED << torrent, chanVars, coordVars, wpc, torrentClient, pw, state,
                  requests, elapsed, dialogue, call, frames, heard >>

WireRead ==
  /\ codec.phase \in {"wire", "cut"}
  /\ codec' = [codec EXCEPT
                 !.phase = IF codec.phase = "wire" THEN "read" ELSE "readCut",
                 !.out = Read(codec.wire)]
  /\ UNCHANGED << torrent, chanVars, coordVars, wpc, torrentClient, pw, state,
                  requests, elapsed, dialogue, call, frames, heard >>

CodecInit ==
  /\ torrent = MkTorrent(3, 2, Workers)
  /\ workQueue = << >>
  /\ queueClosed = FALSE
  /\ resultsClosed = FALSE
  /\ cpc = "init"
  /\ err = "unset"
  /\ downloadedPiece = NoResult
  /\ donePieces = 0
  /\ writes = << >>
  /\ wpc = [w \in Workers |-> "unborn"]
  /\ torrentClient = [w \in Workers |-> NoClient]
  /\ pw = [w \in Workers |-> NoWork]
  /\ state = [w \in Workers |-> NoProgress]
  /\ requests = [w \in Workers |-> << >>]
  /\ elapsed = [w \in Workers |-> 0]
  /\ codec \in { [NoCodec EXCEPT !.phase = "msg", !.msg = m, !.tail = t] :
                   m \in CodecMsgs, t \in CodecTails }
  /\ dialogue = [w \in Workers |-> NoDialogue]
  /\ call = NoCall
  /\ frames = [w \in Workers |-> << >>]
  /\ heard = [w \in Workers |-> Nil]

CodecNext == WireWrite \/ WireCut \/ WireRead

SpecCodec == CodecInit /\ [][CodecNext]_vars

\* --------------------------------------------------------------- queue fill
\* Download on torrents of every length up to 2 * MaxPieceLen + 1 in pieces
\* of every length up to MaxPieceLen, as far as the creation of the output
\* file
SizedTorrents ==
  { MkTorrent(L, P, Workers) :
      L \in 0 .. (2 * MaxPieceLen + 1), P \in 1 .. MaxPieceLen }

QueueInit ==
  /\ torrent \in SizedTorrents
  /\ workQueue = << >>
  /\ queueClosed = FALSE
  /\ resultsClosed = FALSE
  /\ cpc = "init"
  /\ err = "unset"
  /\ downloadedPiece = NoResult
  /\ donePieces = 0
  /\ writes = << >>
  /\ wpc = [w \in Workers |-> "unborn"]
  /\ torrentClient = [w \in Workers |-> NoClient]
  /\ pw = [w \in Workers |-> NoWork]
  /\ state = [w \in Workers |-> NoProgress]
  /\ requests = [w \in Workers |-> << >>]
  /\ elapsed = [w \in Workers |-> 0]
  /\ codec = NoCodec
  /\ dialogue = [w \in Workers |-> NoDialogue]
  /\ call = NoCall
  /\ frames = [w \in Workers |-> << >>]
  /\ heard = [w \in Workers |-> Nil]

QueueNext ==
  \/ Setup
  \/ \E ok \in BOOLEAN : CreateFile(ok)

SpecQueue == QueueInit /\ [][QueueNext]_vars

\* ------------------------------------------------------------ pure functions
\* one call of a function of the packages handshake, message, bitfield and
\* peers: call.in holds its arguments and call.out what it returned
Quiet ==
  /\ torrent = MkTorrent(3, 2, Workers)
  /\ workQueue = << >>
  /\ queueClosed = FALSE
  /\ resultsClosed = FALSE
  /\ cpc = "init"
  /\ err = "unset"
  /\ downloadedPiece = NoResult
  /\ donePieces = 0
  /\ writes = << >>
  /\ wpc = [w \in Workers |-> "unborn"]
  /\ torrentClient = [w \in Workers |-> NoClient]
  /\ pw = [w \in Workers |-> NoWork]
  /\ state = [w \in Workers |-> NoProgress]
  /\ requests = [w \in Workers |-> << >>]
  /\ elapsed = [w \in Workers |-> 0]
  /\ codec = NoCodec
  /\ dialogue = [w \in Workers |-> NoDialogue]
  /\ frames = [w \in Workers |-> << >>]
  /\ heard = [w \in Workers |-> Nil]

CallUnchanged ==
  UNCHANGED << torrent, chanVars, coordVars, wpc, torrentClient, pw, state,
               requests, elapsed, codec, dialogue, frames, heard >>

\* the lengths of the protocol strings handed to Serialize: none, short, the
\* longest a length byte can announce, and longer ones
PstrLens == { 0, 1, 2, 255, 256, 257 }

Pstrs ==
  { BitTorrentPstr } \cup
  { [i \in 1 .. n |-> (f + i) % 256] : n \in PstrLens, f \in { 0, 100 } }

Hashes == { [i \in 1 .. HashLen |-> (f * i) % 256] : f \in { 0, 1, 13 } }

HandshakeTails == { << >>, << 0, 0, 0, 1, 1 >> }

\* frames a peer may send that no Serialize made: twenty zero bytes, and a
\* frame with a zero length byte that is otherwise 68 bytes long
RawFrames == { [i \in 1 .. n |-> 0] : n \in { 0, 1, HashLen, 68 } }

HandshakeCalls ==
  { [fn |-> "handshake", step |-> "in",
     in |-> [hs |-> [Pstr |-> p, InfoHash |-> h, PeerId |-> q], tail |-> t,
             wire |-> << >>],
     out |-> << >>] :
      p \in Pstrs, h \in Hashes, q \in Hashes, t \in HandshakeTails }
  \cup
  { [fn |-> "handshake", step |-> "wire",
     in |-> [hs |-> NoHandshake, tail |-> << >>, wire |-> r],
     out |-> << >>] : r \in RawFrames }

CallHandshakeSerialize ==
  /\ call.fn = "handshake"
  /\ call.step = "in"
  /\ call' = [call EXCEPT !.step = "wire",
                !.in.wire = HandshakeSerialize(call.in.hs) \o call.in.tail]
  /\ CallUnchanged

CallHandshakeRead ==
  /\ call.fn = "handshake"
  /\ call.step = "wire"
  /\ call' = [call EXCEPT !.step = "out", !.out = HandshakeRead(call.in.wire)]
  /\ CallUnchanged

\* the builds of the release script: int has 32 bits on 386 and 64 bits on
\* amd64 and arm64
IntSizes == { 32, 64 }

\* four-byte fields with the top bit set
HighWords == { << 128, 0, 0, 0 >>, << 255, 255, 255, 255 >> }

PieceCallWords == { PutUint32(v) : v \in 0 .. MaxBlockSize + 1 } \cup HighWords

PieceCallPayloads ==
  { [i \in 1 .. n |-> 0] : n \in { 0, 4, 7 } } \cup
  { ix \o bg \o [i \in 1 .. n |-> 5] :
      ix \in { PutUint32(0), PutUint32(1), << 128, 0, 0, 0 >> },
      bg \in PieceCallWords, n \in 0 .. MaxBlockSize }

PieceCalls ==
  { [fn |-> "ParsePiece", step |-> "in",
     in |-> [intSize |-> z, index |-> x, dataBuf |-> [i \in 1 .. n |-> 9],
             msg |-> Message(id, p)],
     out |-> << >>] :
      z \in IntSizes, x \in { 0, 1 }, n \in 0 .. MaxBlockSize + 1,
      id \in { MsgChoke, MsgHave, MsgPiece }, p \in PieceCallPayloads }

CallParsePiece ==
  /\ call.fn = "ParsePiece"
  /\ call.step = "in"
  /\ call' = [call EXCEPT !.step = "out",
                !.out = ParsePieceOn(call.in.intSize, call.in.index,
                                     call.in.dataBuf, call.in.msg)]
  /\ CallUnchanged

\* the indexes handed to FormatHave: an int of either build holds those from
\* 0 to 2^31 - 1, and the 32-bit int the negative ones
HaveIndexes(intSize) ==
  { 0, 1, 255, 256, 65535, 65536, 16777216, 2147483647 } \cup
  (IF intSize = 32 THEN { -1, -256, (-2147483647) - 1 } ELSE { })

HaveCallPayloads ==
  { [i \in 1 .. n |-> 1] : n \in 0 .. 5 } \cup HighWords
    \cup { PutUint32(v) : v \in { 0, 9, 256 } }

HaveCalls ==
  UNION { { [fn |-> "ParseHave", step |-> "in",
             in |-> [intSize |-> z, formatted |-> TRUE, i |-> v, msg |-> Nil],
             out |-> << >>] : v \in HaveIndexes(z) } : z \in IntSizes }
  \cup
  { [fn |-> "ParseHave", step |-> "msg",
     in |-> [intSize |-> z, formatted |-> FALSE, i |-> 0,
             msg |-> Message(id, p)],
     out |-> << >>] :
      z \in IntSizes, id \in { MsgChoke, MsgHave, MsgPiece },
      p \in HaveCallPayloads }

CallFormatHave ==
  /\ call.fn = "ParseHave"
  /\ call.step = "in"
  /\ call' = [call EXCEPT !.step = "msg", !.in.msg = FormatHave(call.in.i)]
  /\ CallUnchanged

CallParseHave ==
  /\ call.fn = "ParseHave"
  /\ call.step = "msg"
  /\ call' = [call EXCEPT !.step = "out",
                !.out = ParseHaveOn(call.in.intSize, call.in.msg)]
  /\ CallUnchanged

\* the bitfields and indexes handed to HasPiece and SetPiece: indexes from
\* two bytes below 0 to more than a byte past the end
CallBitfields ==
  UNION { [1 .. n -> { 0, 84, 255 }] : n \in 0 .. MaxBitfieldLen }

CallIndexes == -17 .. (8 * MaxBitfieldLen + 9)

BitfieldCalls ==
  { [fn |-> f, step |-> "in", in |-> [bf |-> bf, index |-> i, before |-> bf],
     out |-> << >>] :
      f \in { "HasPiece", "SetPiece" }, bf \in CallBitfields,
      i \in CallIndexes }

CallHasPiece ==
  /\ call.fn = "HasPiece"
  /\ call.step = "in"
  /\ call' = [call EXCEPT !.step = "out",
                !.out = HasPiece(call.in.bf, call.in.index)]
  /\ CallUnchanged

\* SetPiece(index) on the bitfield, and once more on what the first call
\* left: call.out is the bitfield after the latest call
CallSetPiece ==
  /\ call.fn = "SetPiece"
  /\ call.step \in {"in", "out"}
  /\ call' = [call EXCEPT
                !.step = IF call.step = "in" THEN "out" ELSE "again",
                !.in.before = IF call.step = "in" THEN call.in.bf ELSE call.out,
                !.out = SetPiece(IF call.step = "in" THEN call.in.bf
                                 ELSE call.out, call.in.index)]
  /\ CallUnchanged

\* the byte strings handed to Unmarshal: every length up to one past
\* MaxCompactPeers peers, filled in several ways, and the list of the test
CompactLists ==
  { [k \in 1 .. n |-> (f * k + g) % 256] :
      n \in 0 .. (peersSize * MaxCompactPeers + 1),
      f \in { 0, 1, 37 }, g \in { 0, 250 } }
  \cup { << 127, 0, 0, 1, 0, 80, 1, 1, 1, 1, 1, 187 >> }

UnmarshalCalls ==
  { [fn |-> "Unmarshal", step |-> "in", in |-> [peersBin |-> b],
     out |-> << >>] : b \in CompactLists }

CallUnmarshal ==
  /\ call.fn = "Unmarshal"
  /\ call.step = "in"
  /\ call' = [call EXCEPT !.step = "out", !.out = Unmarshal(call.in.peersBin)]
  /\ CallUnchanged

CallInit ==
  /\ Quiet
  /\ call \in HandshakeCalls \cup PieceCalls \cup HaveCalls \cup BitfieldCalls
                \cup UnmarshalCalls

CallNext ==
  \/ CallHandshakeSerialize
  \/ CallHandshakeRead
  \/ CallParsePiece
  \/ CallFormatHave
  \/ CallParseHave
  \/ CallHasPiece
  \/ CallSetPiece
  \/ CallUnmarshal

SpecCall == CallInit /\ [][CallNext]_vars


\* ------------------------------------------------------------------- claims
RequeuePcs == {"requeueSkip", "requeueErr", "requeueBad"}

\* the workers that hold a unit (taken from the queue, not yet put back or
\* handed over as a result)
InFlight == { w \in Workers : pw[w] # NoWork }

\* the results the coordinator has received: the pieces written, and the one
\* received last when it is not (or not yet) written
Received ==
  Len(writes) +
  (IF downloadedPiece # NoResult /\
      \A k \in 1 .. Len(writes) : writes[k].Index # downloadedPiece.Index
   THEN 1 ELSE 0)

\* the bytes of the file a successful WriteAt covered
WriteRange(wr) == wr.Offset .. (wr.Offset + Len(wr.Buf) - 1)

\* C1: every piece written to the output file has the digest the torrent
\* lists for the index it is written under, whatever the peers sent and
\* however the workers interleave.
C1_WrittenPiecesVerified ==
  \A k \in 1 .. Len(writes) :
    Sha1(writes[k].Buf) = torrent.PiecesHashes[writes[k].Index + 1]

\* C1 witness: a piece is on file while a worker is putting back a unit whose
\* buffer failed the integrity check.
C1_Witness ==
  /\ writes # << >>
  /\ \E w \in Workers : wpc[w] = "requeueBad"

\* C2: when Download returns nil, every piece index has been written exactly
\* once, at offset i*P and with min(P, L - i*P) bytes; the written ranges are
\* pairwise disjoint and cover [0, L).
C2_SuccessWritesEveryPiece ==
  err = "nil" =>
    LET n == NumPieces(torrent)
        P == torrent.PieceLength
        L == torrent.Length
    IN  /\ Len(writes) = n
        /\ \A i \in 0 .. n - 1 :
             \E k \in 1 .. Len(writes) :
               /\ writes[k].Index = i
               /\ writes[k].Offset = i * P
               /\ Len(writes[k].Buf) = Min(P, L - i * P)
        /\ \A j, k \in 1 .. Len(writes) :
             j # k => WriteRange(writes[j]) \cap WriteRange(writes[k]) = {}
        /\ UNION { WriteRange(writes[k]) : k \in 1 .. Len(writes) } = 0 .. L - 1

\* C2 witness: Download has returned nil.
C2_Witness == err = "nil" /\ cpc = "returned"

\* C3: a request is sent only in a step that starts and ends with the choked
\* flag false, and the flag drops from true to false only in a step that
\* sends nothing and leaves the piece progress alone (the processing of an
\* unchoke); so a session that starts choked sends nothing before an unchoke.
C3_RequestOnlyUnchoked ==
  [][\A w \in Workers :
       /\ requests'[w] # requests[w] =>
            ~torrentClient[w].Choked /\ ~torrentClient'[w].Choked
       /\ (torrentClient[w].Choked /\ ~torrentClient'[w].Choked) =>
            /\ requests'[w] = requests[w]
            /\ state'[w] = state[w]
            /\ torrentClient'[w].Bitfield = torrentClient[w].Bitfield
            /\ torrentClient'[w].Conn = torrentClient[w].Conn]_vars

\* C3 witness: requests were sent, then the peer choked the session, and the
\* choke is all that keeps the next request back.
C3_Witness ==
  \E w \in Workers :
    /\ wpc[w] = "attempt"
    /\ requests[w] # << >>
    /\ torrentClient[w].Choked
    /\ MaySend_ignoreChoke(w)

\* C4: during a piece attempt downloaded <= requested <= piece length,
\* whatever the peer sends.
C4_DownloadedWithinRequested ==
  \A w \in Workers :
    wpc[w] = "attempt" =>
      /\ state[w].Downloaded <= state[w].Requested
      /\ state[w].Requested <= pw[w].Length

\* C5: during a piece attempt 0 <= backlog <= MaxBacklog, whatever the peer
\* sends.
C5_BacklogWithinBounds ==
  \A w \in Workers :
    wpc[w] = "attempt" =>
      /\ 0 <= state[w].Backlog
      /\ state[w].Backlog <= MaxBacklog

\* C6: every request is sent with begin = requested and length =
\* min(MaxBlockSize, piece length - requested) as they stand when it is sent;
\* so 0 < length <= MaxBlockSize and begin + length <= piece length.
C6_RequestLength ==
  [][\A w \in Workers :
       Len(requests'[w]) = Len(requests[w]) + 1 =>
         LET r == requests'[w][Len(requests'[w])]
         IN  /\ r.begin = state[w].Requested
             /\ r.length = Min(MaxBlockSize, pw[w].Length - state[w].Requested)
             /\ 0 < r.length
             /\ r.length <= MaxBlockSize
             /\ r.begin + r.length <= pw[w].Length]_vars

\* C6 witness: the last request of a piece of several blocks was sent, and it
\* is shorter than a full block.
C6_Witness ==
  \E w \in Workers :
    /\ Len(requests[w]) >= 2
    /\ requests[w][Len(requests[w])].length < MaxBlockSize
    /\ state[w].Requested = pw[w].Length

\* C7: a unit has at most one consumer: no two workers hold the same unit, no
\* unit a worker holds is in the queue, and no unit is in the queue twice
\* (a worker's pw is one unit at most).
C7_OneConsumerPerUnit ==
  /\ \A w1, w2 \in InFlight : w1 # w2 => pw[w1].Index # pw[w2].Index
  /\ \A w \in InFlight : \A k \in 1 .. Len(workQueue) :
       workQueue[k].Index # pw[w].Index
  /\ \A j, k \in 1 .. Len(workQueue) :
       j # k => workQueue[j].Index # workQueue[k].Index

\* C7 witness: two workers hold a unit each, one downloading piece 0 while
\* the other is about to put piece 1 back.
C7_Witness ==
  \E w1, w2 \in Workers :
    /\ w1 # w2
    /\ wpc[w1] = "attempt"
    /\ wpc[w2] \in RequeuePcs
    /\ pw[w1].Index = 0
    /\ pw[w2].Index = 1

\* C8: whenever a worker stands at a send to the work queue (lines 297, 305,
\* 312), the queue holds fewer units than its capacity, so the send does not
\* block.
C8_RequeueHasRoom ==
  \A w \in Workers :
    wpc[w] \in RequeuePcs => Len(workQueue) < QueueCap(torrent)

\* C8 witness: a worker is about to put a unit back and every other unit is
\* in the queue: one free slot is left.
C8_Witness ==
  \E w \in Workers :
    /\ wpc[w] \in RequeuePcs
    /\ ~queueClosed
    /\ Len(workQueue) = QueueCap(torrent) - 1

\* C9 as claimed: once the queue is filled, units in flight + units in the
\* queue = n at any time.
C9_InFlightPlusQueuedIsN ==
  cpc # "init" =>
    Cardinality(InFlight) + Len(workQueue) = NumPieces(torrent)

\* C9 amended: once the queue is filled, units in flight + units in the
\* queue + results received by the coordinator = n.
C9_InFlightQueuedReceivedIsN ==
  cpc # "init" =>
    Cardinality(InFlight) + Len(workQueue) + Received = NumPieces(torrent)

\* C9 witness: one result has been received while another unit is in flight.
C9_Witness ==
  /\ Received = 1
  /\ Cardinality(InFlight) = 1
  /\ workQueue = << >>

\* C10: after a failed attempt the worker's next step puts its unit back at
\* the end of the queue and publishes nothing; after an error of the attempt
\* the worker has then exited for good, after an integrity failure it goes on
\* to take the next unit with its session as it was.
C10_FailedAttemptRequeues ==
  [][\A w \in Workers :
       /\ (wpc[w] \in {"requeueErr", "requeueBad"} /\ wpc'[w] # wpc[w]) =>
            /\ workQueue' = Append(workQueue, pw[w])
            /\ writes' = writes
            /\ downloadedPiece' = downloadedPiece
            /\ wpc[w] = "requeueErr" =>
                 wpc'[w] = "exit" /\ torrentClient'[w].Conn = "closed"
            /\ wpc[w] = "requeueBad" =>
                 wpc'[w] = "range" /\ torrentClient'[w] = torrentClient[w]
       /\ wpc[w] = "exit" => wpc'[w] = "exit"]_vars

\* C11: Download returns nil only with n results written; once it has
\* returned, the work queue and the results channel are closed, and a worker
\* that waits on the empty queue then leaves its loop and exits (unless a
\* panic has taken the whole process down before it ran).
C11_ReturnReleasesWorkers ==
  /\ [](cpc = "returned" => queueClosed /\ resultsClosed)
  /\ [](err = "nil" => donePieces = NumPieces(torrent))
  /\ [](cpc \in {"collect", "write"} => donePieces < NumPieces(torrent))
  /\ \A w \in Workers :
       (cpc = "returned" /\ wpc[w] = "range" /\ workQueue = << >>)
         ~> (wpc[w] = "exit" \/ ~Alive)

\* C11 witness: Download has returned nil and a worker, its connection now
\* closed, has left the loop while another still waits on the queue.
C11_Witness ==
  /\ cpc = "returned"
  /\ err = "nil"
  /\ \E w \in Workers : wpc[w] = "range"
  /\ \E w \in Workers : wpc[w] = "exit" /\ torrentClient[w].Conn = "closed"
                           /\ torrentClient[w].Bitfield # << >>

\* the piece indexes of the torrents of a download run
PieceIndexes == 0 .. 1

\* C12: a unit put back after its buffer failed the integrity check is in
\* the end written to the file, and the download completes, when another
\* connected peer has every piece and serves it correctly.
C12_CorruptUnitEventuallyWritten ==
  /\ \A i \in PieceIndexes :
       (\E w \in Workers : wpc[w] = "requeueBad" /\ pw[w].Index = i)
         ~> (\E k \in 1 .. Len(writes) : writes[k].Index = i)
  /\ <>(err = "nil")

\* C13: with no peer from the tracker and at least one piece, the run ends
\* with an error: Download never comes to wait for piece results, and never
\* returns nil.
C13_NoPeersReportsError ==
  (torrent.Peers = {} /\ NumPieces(torrent) >= 1) =>
     /\ cpc # "collect"
     /\ err # "nil"

\* C14: a piece attempt is over within PieceDeadline seconds of its start,
\* whatever frames the peer sends meanwhile: while the attempt runs, and when
\* it has just ended, no more than PieceDeadline seconds have passed.
C14_AttemptWithinPieceDeadline ==
  \A w \in Workers :
    wpc[w] \in {"attempt", "requeueErr", "requeueBad", "have"} =>
      elapsed[w] <= PieceDeadline

\* worker w holds the session client.New returned
Session(w) == wpc[w] \in {"unchoke", "interested", "range"}

\* C15: client.New returns a session only when the peer's handshake carried
\* the torrent's info-hash and the frame after it was a bitfield; the session
\* is choked and its bitfield is that frame's payload; with another
\* info-hash there is no session, the worker leaves with the error.
C15_SessionNeedsHashAndBitfield ==
  \A w \in Workers :
    /\ Session(w) =>
         /\ dialogue[w].dial
         /\ ~dialogue[w].hs.err
         /\ dialogue[w].hs.hs.InfoHash = torrent.InfoHash
         /\ ~dialogue[w].first.err
         /\ dialogue[w].first.msg # Nil
         /\ dialogue[w].first.msg.Id = MsgBitfield
         /\ torrentClient[w].Choked
         /\ torrentClient[w].Bitfield = dialogue[w].first.msg.Payload
    /\ (wpc[w] \notin {"unborn", "new"}
          /\ dialogue[w].hs.hs.InfoHash # torrent.InfoHash) =>
         /\ wpc[w] = "exit"
         /\ torrentClient[w].Bitfield = << >>

\* C15 witness: a session whose peer announced two bytes of bitfield under
\* another protocol string.
C15_Witness ==
  \E w \in Workers :
    /\ Session(w)
    /\ torrentClient[w].Bitfield = << 255, 1 >>
    /\ dialogue[w].hs.hs.Pstr = "other protocol"

\* C16: when the frame after a good handshake is no bitfield message (another
\* id, or a keep-alive), client.New fails: the worker leaves with the error
\* and the connection is closed.
C16_NonBitfieldFails ==
  \A w \in Workers :
    (/\ wpc[w] \notin {"unborn", "new"}
     /\ dialogue[w].dial /\ dialogue[w].sent /\ ~dialogue[w].hs.err
     /\ dialogue[w].hs.hs.InfoHash = torrent.InfoHash
     /\ ~dialogue[w].first.err
     /\ dialogue[w].first.msg.Id # MsgBitfield) =>
       /\ wpc[w] = "exit"
       /\ torrentClient[w].Conn = "closed"

\* C17: a worker that is gone has left no connection open, however it went:
\* a failed set-up, an error in an attempt, the closed work queue.
C17_ConnClosedOnExit ==
  \A w \in Workers :
    wpc[w] \in {"exit", "panic"} => torrentClient[w].Conn # "open"

\* C18: outside a running attempt the connection carries no deadline (after
\* the set-up, after an attempt has returned, while waiting on the queue),
\* and inside one it carries none once a read has returned.
C18_NoLeftoverDeadline ==
  /\ [](\A w \in Workers :
          wpc[w] # "attempt" => torrentClient[w].Deadline = NoDeadline)
  /\ [][\A w \in Workers :
          (/\ wpc[w] = "attempt"
           /\ ~MaySend(w)
           /\ state[w].Downloaded < pw[w].Length
           /\ << wpc[w], state[w], torrentClient[w], elapsed[w] >>' #
                << wpc[w], state[w], torrentClient[w], elapsed[w] >>) =>
            torrentClient'[w].Deadline = NoDeadline]_vars

\* C18 witness: an attempt has returned (with a buffer or with an error) and
\* the open connection carries no deadline.
C18_Witness ==
  /\ \E w \in Workers : wpc[w] = "requeueErr" /\ torrentClient[w].Conn = "open"
                           /\ torrentClient[w].Deadline = NoDeadline
  /\ \E w \in Workers : wpc[w] = "have" /\ torrentClient[w].Deadline = NoDeadline

\* C19: until the output file is created no worker has been spawned, and when
\* its creation failed none was ever started and no peer was dialled.
C19_FileBeforeWorkers ==
  (\/ cpc \in {"init", "create"}
   \/ (err = "error" /\ writes = << >> /\ downloadedPiece = NoResult)) =>
     \A w \in Workers : wpc[w] = "unborn" /\ torrentClient[w].Conn = "none"

\* C20: Read(Serialize(m)) gives back m (the id and payload, or the nil
\* message of a keep-alive) and takes exactly the serialized bytes off the
\* reader; the length prefix is 1 + len(payload) big-endian, four zero bytes
\* for the keep-alive.
C20_MessageRoundTrip ==
  /\ codec.phase \in {"wire", "read"} =>
       /\ Len(codec.wire) >= 4
       /\ ((codec.wire[1] * 256 + codec.wire[2]) * 256 + codec.wire[3]) * 256
             + codec.wire[4]
            = (IF codec.msg = Nil THEN 0 ELSE 1 + Len(codec.msg.Payload))
       /\ Len(codec.wire) = Len(codec.tail) +
            (IF codec.msg = Nil THEN 4 ELSE 5 + Len(codec.msg.Payload))
  /\ codec.phase = "read" =>
       /\ ~codec.out.err
       /\ codec.out.msg = codec.msg
       /\ codec.out.rest = codec.tail

\* C20 witness: a piece-id message with a payload has come back off a reader
\* that holds more bytes after it.
C20_Witness ==
  /\ codec.phase = "read"
  /\ codec.msg # Nil
  /\ codec.msg.Id = MsgPiece
  /\ Len(codec.msg.Payload) = MaxPayload
  /\ codec.tail # << >>
  /\ codec.out.msg = codec.msg

\* the number of bytes of the frame Serialize makes of codec.msg
FrameLen == IF codec.msg = Nil THEN 4 ELSE 5 + Len(codec.msg.Payload)

\* C21: when the stream ends before the 4-byte length prefix is complete, or
\* before the announced number of body bytes has arrived, Read returns an
\* error and no message; a read without error has had the whole frame and
\* returns the message that was sent.
C21_TruncatedFrameFails ==
  codec.phase = "readCut" =>
    /\ Len(codec.wire) < FrameLen => (codec.out.err /\ codec.out.msg = Nil)
    /\ ~codec.out.err =>
         (Len(codec.wire) >= FrameLen /\ codec.out.msg = codec.msg)

\* C21 witness: the prefix of a piece-id message arrived whole and announced
\* a body of which only a part followed; Read returned an error.
C21_Witness ==
  /\ codec.phase = "readCut"
  /\ codec.msg # Nil
  /\ codec.msg.Id = MsgPiece
  /\ Len(codec.wire) > 4
  /\ Len(codec.wire) < FrameLen
  /\ codec.out.err
  /\ codec.out.msg = Nil

\* C22 (as stated): for every handshake whose protocol string is non-empty,
\* Read applied to Serialize returns the same protocol string, info-hash and
\* peer id, reading exactly 49 + L bytes; Read rejects any frame whose
\* leading length byte is 0.
C22_HandshakeRoundTrip ==
  (call.fn = "handshake" /\ call.step = "out") =>
    /\ (call.in.hs.Pstr # << >>) =>
         /\ ~call.out.err
         /\ call.out.hs = call.in.hs
         /\ call.out.rest = call.in.tail
    /\ (call.in.wire # << >> /\ call.in.wire[1] = 0) => call.out.err

\* C22 (amended): the round trip holds for protocol strings of 1 to 255
\* bytes, the lengths one length byte can announce; the frame is 49 + L
\* bytes long and Read takes exactly those off the reader. Read rejects any
\* frame whose leading length byte is 0.
C22_HandshakeRoundTripByteLength ==
  /\ (call.fn = "handshake" /\ call.step \in {"wire", "out"}
        /\ call.in.hs # NoHandshake) =>
       Len(call.in.wire) = 49 + Len(call.in.hs.Pstr) + Len(call.in.tail)
  /\ (call.fn = "handshake" /\ call.step = "out") =>
       /\ (call.in.hs.Pstr # << >> /\ Len(call.in.hs.Pstr) <= 255) =>
            /\ ~call.out.err
            /\ call.out.hs = call.in.hs
            /\ call.out.rest = call.in.tail
       /\ (call.in.wire # << >> /\ call.in.wire[1] = 0) =>
            (call.out.err /\ call.out.hs = NoHandshake)

\* C22 witness: the handshake with the BitTorrent protocol string has come
\* back off a reader that holds more bytes after it.
C22_Witness ==
  /\ call.fn = "handshake"
  /\ call.step = "out"
  /\ call.in.hs.Pstr = BitTorrentPstr
  /\ call.in.hs.InfoHash # call.in.hs.PeerId
  /\ call.in.tail # << >>
  /\ call.out.hs = call.in.hs
  /\ call.out.rest = call.in.tail

\* the number a four-byte big-endian field holds, for fields below 2^31
BigEndian(b) == ((b[1] * 256 + b[2]) * 256 + b[3]) * 256 + b[4]

\* what C23 requires of the message and buffer of the call for ParsePiece to
\* succeed (a field with its top bit set holds 2^31 or more: no index and no
\* offset inside a buffer of the model)
C23_Accepts ==
  LET msg == call.in.msg
      dataBuf == call.in.dataBuf
  IN  /\ msg.Id = 7
      /\ Len(msg.Payload) >= 8
      /\ msg.Payload[1] < 128
      /\ BigEndian(SubSeq(msg.Payload, 1, 4)) = call.in.index
      /\ msg.Payload[5] < 128
      /\ BigEndian(SubSeq(msg.Payload, 5, 8)) < Len(dataBuf)
      /\ BigEndian(SubSeq(msg.Payload, 5, 8)) + (Len(msg.Payload) - 8)
           <= Len(dataBuf)

\* C23: ParsePiece(expected_index, buf, msg) succeeds if and only if
\* msg.id = 7, |payload| >= 8, the parsed index equals expected_index,
\* begin < |buf| and begin + |block| <= |buf|; on success it returns |block|
\* and buf[begin .. begin+|block|) equals the block bytes; in every other case
\* it returns an error and 0.
C23_ParsePieceIff ==
  (call.fn = "ParsePiece" /\ call.step = "out") =>
    IF C23_Accepts
    THEN LET begin == BigEndian(SubSeq(call.in.msg.Payload, 5, 8))
             block == SubSeq(call.in.msg.Payload, 9, Len(call.in.msg.Payload))
         IN  /\ ~call.out.err
             /\ ~call.out.panic
             /\ call.out.n = Len(block)
             /\ SubSeq(call.out.buf, begin + 1, begin + Len(block)) = block
    ELSE /\ call.out.err
         /\ ~call.out.panic
         /\ call.out.n = 0

\* C24: ParseHave(msg) succeeds if and only if msg.id = 4 and the payload is
\* exactly 4 bytes long, and then returns the big-endian index;
\* ParseHave(FormatHave(i)) = i for every index i an int of 32 bits or a
\* uint32 below 2^31 holds; otherwise it returns an error and index 0.
C24_ParseHaveIff ==
  (call.fn = "ParseHave" /\ call.step = "out") =>
    /\ ~call.out.err <=>
         (call.in.msg.Id = 4 /\ Len(call.in.msg.Payload) = 4)
    /\ call.out.err => call.out.index = 0
    /\ (~call.out.err /\ call.in.msg.Payload[1] < 128) =>
         call.out.index = BigEndian(call.in.msg.Payload)
    /\ call.in.formatted => (~call.out.err /\ call.out.index = call.in.i)

\* C24 witness: a have message made by FormatHave for an index that needs
\* all four bytes has been parsed back to that index.
C24_Witness ==
  /\ call.fn = "ParseHave"
  /\ call.step = "out"
  /\ call.in.formatted
  /\ call.in.i = 2147483647
  /\ call.in.msg.Payload = << 127, 255, 255, 255 >>
  /\ call.out.index = call.in.i

\* bit i of a bitfield, most significant bit of each byte first, for
\* 0 <= i < 8 * Len(bf)
Bit(bf, i) == (bf[(i \div 8) + 1] \div (2 ^ (7 - (i % 8)))) % 2 = 1

\* C25: has(i) is true if and only if 0 <= i < 8*|bitfield| and the bit at
\* byte i/8, MSB-first position 7 - (i mod 8), is 1; it is false for every
\* negative i and every i >= 8*|bitfield|; it never faults: where it reads
\* a byte the byte exists and the shift count is not negative.
C25_HasPieceBit ==
  /\ (call.fn = "HasPiece" /\ call.step = "out") =>
       LET bf == call.in.bf
           i == call.in.index
       IN  /\ call.out <=> (0 <= i /\ i < 8 * Len(bf) /\ Bit(bf, i))
           /\ (i < 0 \/ i >= 8 * Len(bf)) => ~call.out
  /\ call.fn = "HasPiece" =>
       LET byteIndex == GoDiv(call.in.index, 8)
           offset == GoRem(call.in.index, 8)
       IN  ~(byteIndex < 0 \/ byteIndex >= Len(call.in.bf)) =>
             (byteIndex + 1 \in DOMAIN call.in.bf /\ 7 - offset >= 0)

\* C25 witness: a set bit of the second byte was asked for and found.
C25_Witness ==
  /\ call.fn = "HasPiece"
  /\ call.step = "out"
  /\ call.in.bf = << 0, 84 >>
  /\ call.in.index = 9
  /\ call.out = TRUE

\* C26: for an in-range index i, after set(i) has(i) is true and has(j) is
\* unchanged for every j # i, and a second set(i) changes nothing; for an
\* out-of-range or negative index set changes no byte of the bitfield; it
\* does not fault: where it writes a byte the byte exists and the shift
\* count is not negative.
C26_SetPieceOnlyThatBit ==
  /\ (call.fn = "SetPiece" /\ call.step \in {"out", "again"}) =>
       LET bf == call.in.before
           i == call.in.index
       IN  /\ Len(call.out) = Len(bf)
           /\ IF 0 <= i /\ i < 8 * Len(bf)
              THEN /\ Bit(call.out, i)
                   /\ HasPiece(call.out, i)
                   /\ \A j \in CallIndexes \ { i } :
                        HasPiece(call.out, j) = HasPiece(bf, j)
                   /\ \A j \in (0 .. 8 * Len(bf) - 1) \ { i } :
                        Bit(call.out, j) = Bit(bf, j)
              ELSE call.out = bf
           /\ call.step = "again" => call.out = bf
  /\ call.fn = "SetPiece" =>
       LET byteIndex == GoDiv(call.in.index, 8)
           offset == GoRem(call.in.index, 8)
       IN  ~(byteIndex < 0 \/ byteIndex >= Len(call.in.bf)) =>
             (byteIndex + 1 \in DOMAIN call.in.bf /\ 7 - offset >= 0)

\* C26 witness: a clear bit of a byte that has other bits set was set, and
\* set again.
C26_Witness ==
  /\ call.fn = "SetPiece"
  /\ call.step = "again"
  /\ call.in.bf = << 84, 0 >>
  /\ call.in.index = 4
  /\ call.out = << 92, 0 >>

\* C27: for a byte string whose length is a multiple of 6 (0 included)
\* Unmarshal returns exactly len/6 peers in input order, peer k with the
\* address bytes 6k..6k+3 and the big-endian port of bytes 6k+4..6k+5; for
\* every other length it returns an error and no peers.
C27_UnmarshalCompactPeers ==
  (call.fn = "Unmarshal" /\ call.step = "out") =>
    LET b == call.in.peersBin
        n == Len(b)
    IN  IF n % 6 = 0
        THEN /\ ~call.out.err
             /\ Len(call.out.peers) = n \div 6
             /\ \A k \in 0 .. (n \div 6) - 1 :
                  /\ call.out.peers[k + 1].IP
                       = << b[6 * k + 1], b[6 * k + 2], b[6 * k + 3],
                            b[6 * k + 4] >>
                  /\ call.out.peers[k + 1].Port
                       = 256 * b[6 * k + 5] + b[6 * k + 6]
        ELSE /\ call.out.err
             /\ call.out.peers = << >>

\* C27 witness: the two-peer list of the test was parsed to 127.0.0.1:80 and
\* 1.1.1.1:443, in that order.
C27_Witness ==
  /\ call.fn = "Unmarshal"
  /\ call.step = "out"
  /\ ~call.out.err
  /\ call.out.peers = << [IP |-> << 127, 0, 0, 1 >>, Port |-> 80],
                         [IP |-> << 1, 1, 1, 1 >>, Port |-> 443] >>

\* the sum of the lengths of the work units of a queue
RECURSIVE SumLengths(_)
SumLengths(q) == IF q = << >> THEN 0 ELSE Head(q).Length + SumLengths(Tail(q))

C29_WrongProtocolFails ==
  \A w \in Workers :
    (/\ wpc[w] \notin {"unborn", "new"}
     /\ dialogue[w].dial /\ dialogue[w].sent /\ ~dialogue[w].hs.err
     /\ dialogue[w].hs.hs.Pstr # Handshake("", "").Pstr
     /\ ~dialogue[w].first.err
     /\ dialogue[w].first.msg # Nil
     /\ dialogue[w].first.msg.Id = MsgBitfield) =>
       /\ wpc[w] = "exit"
       /\ torrentClient[w].Conn = "closed"

\* C30: within one piece attempt the requests are issued in strictly
\* increasing begin order and tile the piece: the first has begin 0, each
\* later one begins where the one before it ended, no byte range is requested
\* twice, the bytes requested so far are counted in Requested, and once
\* Requested = piece length the requests cover exactly [0, piece length).
C30_RequestsTilePiece ==
  \A w \in Workers :
    LET r == requests[w]
    IN  /\ Len(r) >= 1 => r[1].begin = 0
        /\ \A k \in 2 .. Len(r) :
             /\ r[k].begin = r[k - 1].begin + r[k - 1].length
             /\ r[k].begin > r[k - 1].begin
        /\ \A j \in 1 .. Len(r) : \A k \in 1 .. Len(r) :
             j < k => r[j].begin + r[j].length <= r[k].begin
        /\ \A k \in 1 .. Len(r) : r[k].index = pw[w].Index /\ r[k].length > 0
        /\ state[w] # NoProgress =>
             /\ state[w].Requested
                  = (IF r = << >> THEN 0 ELSE r[Len(r)].begin + r[Len(r)].length)
             /\ state[w].Requested <= pw[w].Length

\* C30 witness: a piece of three blocks, the last one shorter, has been
\* requested whole.
C30_Witness ==
  /\ Len(requests[1]) = 3
  /\ requests[1][1].begin = 0
  /\ requests[1][2].begin = MaxBlockSize
  /\ requests[1][3].begin + requests[1][3].length = pw[1].Length
  /\ requests[1][3].length < MaxBlockSize
  /\ state[1] # NoProgress
  /\ state[1].Requested = pw[1].Length

\* C31: a worker never runs the piece downloader, and so never sends a
\* request, for a unit whose index is not set in its peer's bitfield at the
\* moment the unit is taken; the worker's next step puts such a unit back on
\* the queue with its index, digest and length unchanged, and the worker goes
\* on to take the next unit.
C31_SkippedUnitPutBack ==
  /\ [](\A w \in Workers : wpc[w] = "requeueSkip" => requests[w] = << >>)
  /\ [][\A w \in Workers :
          /\ (wpc[w] = "range" /\ wpc'[w] \in {"attempt", "requeueSkip"}) =>
               /\ pw'[w] = Head(workQueue)
               /\ wpc'[w] = "attempt" <=>
                    HasPiece(torrentClient[w].Bitfield, Head(workQueue).Index)
          /\ (wpc[w] = "requeueSkip" /\ wpc'[w] # wpc[w]) =>
               /\ workQueue' = Append(workQueue, pw[w])
               /\ wpc'[w] = "range"
               /\ torrentClient'[w] = torrentClient[w]]_vars

\* C32: once its session is established the worker sends unchoke and then
\* interested, in that order (they are the first two frames it writes, and
\* its only steps until they are written), and both are sent before the
\* worker takes its first unit or sends any request on that session.
C32_UnchokeThenInterested ==
  /\ [](\A w \in Workers :
          /\ Len(frames[w]) >= 1 => frames[w][1] = Message(MsgUnchoke, << >>)
          /\ Len(frames[w]) >= 2 => frames[w][2] = Message(MsgInterested, << >>)
          /\ (pw[w] # NoWork \/ requests[w] # << >> \/ wpc[w] = "range") =>
               Len(frames[w]) >= 2)
  /\ [][\A w \in Workers :
          /\ (wpc[w] = "new" /\ wpc'[w] \notin {"new", "exit", "panic"}) =>
               (wpc'[w] = "unchoke" /\ frames'[w] = << >>)
          /\ (wpc[w] = "unchoke" /\ wpc'[w] # wpc[w]) =>
               frames'[w] = << Message(MsgUnchoke, << >>) >>
          /\ (wpc[w] = "interested" /\ wpc'[w] # wpc[w]) =>
               /\ frames'[w] = << Message(MsgUnchoke, << >>),
                                  Message(MsgInterested, << >>) >>
               /\ pw'[w] = NoWork
               /\ requests'[w] = << >>]_vars

\* C32 witness: a worker has sent its first request, after the two frames.
C32_Witness ==
  \E w \in Workers :
    /\ wpc[w] = "attempt"
    /\ Len(requests[w]) = 1
    /\ frames[w] = << Message(MsgUnchoke, << >>), Message(MsgInterested, << >>) >>

\* C33: the session's choked flag changes only when a choke or an unchoke
\* message is processed; at any time it is true if and only if no unchoke has
\* been processed yet on the session or the most recently processed
\* choke/unchoke message was a choke; outside a piece attempt no step of the
\* worker changes it, so its value carries over from the end of one attempt
\* to the start of the next.
C33_ChokedFollowsChokeUnchoke ==
  /\ [](\A w \in Workers :
          torrentClient[w].Choked <=>
            (heard[w] = Nil \/ heard[w].Id = MsgChoke))
  /\ [][\A w \in Workers :
          /\ torrentClient'[w].Choked # torrentClient[w].Choked =>
               /\ wpc[w] = "attempt"
               /\ heard'[w] # heard[w]
               /\ heard'[w].Id \in {MsgChoke, MsgUnchoke}
          /\ wpc[w] # "attempt" =>
               torrentClient'[w].Choked = torrentClient[w].Choked]_vars

\* C33 witness: a session that was unchoked in an earlier attempt starts its
\* next attempt unchoked.
C33_Witness ==
  \E w \in Workers :
    /\ wpc[w] = "attempt"
    /\ requests[w] = << >>
    /\ state[w].Downloaded = 0
    /\ heard[w] = Message(MsgUnchoke, << >>)
    /\ ~torrentClient[w].Choked

\* C34: processing a keep-alive, or any message that is not choke, unchoke,
\* have or piece (interested, not-interested, bitfield, request, cancel or an
\* unknown id), leaves the piece progress (buffer, downloaded, requested,
\* backlog), the choked flag and the peer's bitfield unchanged and does not
\* abort the attempt.
C34_OtherFramesIgnored ==
  [][\A w \in Workers :
       \A m \in { Nil } \cup OtherMsgs :
         ReadMessage(w, [err |-> FALSE, msg |-> m], elapsed'[w] - elapsed[w]) =>
           /\ state'[w] = state[w]
           /\ torrentClient'[w].Choked = torrentClient[w].Choked
           /\ torrentClient'[w].Bitfield = torrentClient[w].Bitfield
           /\ wpc'[w] = "attempt"]_vars

\* C34 witness: time has passed in reads of an attempt that is still where it
\* started: no choke or unchoke was processed, no block accepted, no read
\* failed, so every frame read was a keep-alive or a frame without a case.
C34_Witness ==
  \E w \in Workers :
    /\ wpc[w] = "attempt"
    /\ elapsed[w] > 0
    /\ heard[w] = Nil
    /\ state[w] = [Index |-> pw[w].Index, Buf |-> MakeBuf(pw[w].Length),
                   Downloaded |-> 0, Requested |-> 0, Backlog |-> 0]

C36_Published ==
  { writes[k].Index : k \in 1 .. Len(writes) }
  \cup (IF downloadedPiece = NoResult THEN {} ELSE { downloadedPiece.Index })

\* C36: no piece index is published on the results channel more than once in
\* a run: a result the coordinator has just received is for an index it had
\* not received before, a unit whose result has been published is neither on
\* the work queue nor held by a worker ever after, so the results the
\* coordinator has counted are for as many distinct indices and no piece is
\* written to the file twice.
C36_PublishedOnce ==
  /\ cpc = "write" =>
       \A k \in 1 .. Len(writes) : writes[k].Index # downloadedPiece.Index
  /\ \A i \in C36_Published :
       /\ \A k \in 1 .. Len(workQueue) : workQueue[k].Index # i
       /\ \A w \in Workers : pw[w] # NoWork => pw[w].Index # i
  /\ donePieces = Len(writes)
  /\ Cardinality({ writes[k].Index : k \in 1 .. Len(writes) }) = donePieces

\* C36 witness: every piece of a torrent of several pieces has been written,
\* and nothing is left on the queue or in a worker's hands.
C36_Witness ==
  /\ NumPieces(torrent) >= 2
  /\ donePieces = NumPieces(torrent)
  /\ C36_Published = 0 .. NumPieces(torrent) - 1
  /\ workQueue = << >>
  /\ \A w \in Workers : pw[w] = NoWork

\* C37: no worker ever sends on the work queue or on the results channel
\* after the coordinator has closed them, in any interleaving: a worker
\* leaves a put-back step only while the queue is open and leaves its publish
\* step only while the results channel is open.
C37_NoSendAfterClose ==
  [][\A w \in Workers :
       /\ (wpc[w] \in RequeuePcs /\ wpc'[w] # wpc[w]) => ~queueClosed
       /\ (wpc[w] = "publish" /\ wpc'[w] # wpc[w]) => ~resultsClosed]_vars

\* C39: every piece message accepted into the buffer during an attempt
\* answers a request the client sent earlier in the same attempt (same begin
\* and block length) that had not already been answered; a block the client
\* did not request, or one received while no request is outstanding, is
\* never accepted.  Stated on the steps: a read that accepts a piece message
\* (the attempt goes on with the block counted) happens only while a request
\* is outstanding, and the requests sent in this attempt hold one with the
\* message's begin and the block's length.
C39_AcceptedBlockWasRequested ==
  [][\A w \in Workers :
       \A m \in { x \in AttemptMsgs(w) : x # Nil /\ x.Id = MsgPiece } :
         (/\ ReadMessage(w, [err |-> FALSE, msg |-> m], 0)
          /\ wpc'[w] = "attempt") =>
           /\ state[w].Backlog > 0
           /\ \E k \in 1 .. Len(requests[w]) :
                /\ requests[w][k].begin = BigEndian(SubSeq(m.Payload, 5, 8))
                /\ requests[w][k].length = Len(m.Payload) - 8]_vars

\* C38: when attemptDownloadPiece returns a buffer without error, every byte
\* offset in [0, piece length) of that buffer has been filled by a received
\* block, and the bytes counted in downloaded cover the piece with no gap and
\* no byte counted twice.  The attempt returns its buffer when its loop ends
\* (downloaded has reached the piece length); make() zeroes the buffer and no
\* block the peers of the model send holds a zero byte, so a zero byte is one
\* no block has filled, and bytes counted once each add up to the length.
C38_ReturnedBufferFilled ==
  \A w \in Workers :
    (wpc[w] = "attempt" /\ ~(state[w].Downloaded < pw[w].Length)) =>
      /\ \A k \in 1 .. Len(state[w].Buf) : state[w].Buf[k] # 0
      /\ state[w].Downloaded = pw[w].Length

\* the message of the call is one ParsePiece must reject: wrong id, short
\* payload, index mismatch, begin out of range (at or beyond the end of the
\* buffer; a word with its top bit set is 2^31 or more), block too large
C40_Rejects ==
  LET msg == call.in.msg
      size == Len(call.in.dataBuf)
  IN  \/ msg.Id # MsgPiece
      \/ Len(msg.Payload) < 8
      \/ msg.Payload[1] >= 128
      \/ BigEndian(SubSeq(msg.Payload, 1, 4)) # call.in.index
      \/ msg.Payload[5] >= 128
      \/ BigEndian(SubSeq(msg.Payload, 5, 8)) >= size
      \/ BigEndian(SubSeq(msg.Payload, 5, 8)) + (Len(msg.Payload) - 8) > size

\* C40: ParsePiece changes only the destination-buffer bytes in
\* [begin, begin + |block|); whenever it rejects a message (wrong id, short
\* payload, index mismatch, begin out of range, block too large) the
\* destination buffer is left byte for byte unchanged.  The buffer keeps its
\* length in every call.
C40_ParsePieceBufferEffect ==
  (call.fn = "ParsePiece" /\ call.step = "out") =>
    LET msg == call.in.msg
        old == call.in.dataBuf
        new == call.out.buf
        begin == BigEndian(SubSeq(msg.Payload, 5, 8))
        dataLen == Len(msg.Payload) - 8
    IN  /\ Len(new) = Len(old)
        /\ (call.out.err \/ call.out.panic) => new = old
        /\ IF C40_Rejects
           THEN new = old
           ELSE \A k \in 1 .. Len(old) :
                  (k <= begin \/ k > begin + dataLen) => new[k] = old[k]

\* C40 witness: a block was accepted into the middle of the buffer, the
\* bytes before and after it are as they were.
C40_Witness ==
  /\ call.fn = "ParsePiece"
  /\ call.step = "out"
  /\ ~call.out.err
  /\ ~call.out.panic
  /\ call.in.dataBuf = << 9, 9, 9 >>
  /\ call.out.buf = << 9, 5, 9 >>

====
